---- MODULE Spec2Model ----
(***************************************************************************)
(* A model of folder-analyzer: the single-item image analyzer              *)
(* (src/image_analyzer/core.py, cli.py) and the batch driver               *)
(* (src/process_folder/folder_processor.py).                               *)
(*                                                                         *)
(* Text is modelled as a sequence of one-character strings wherever the    *)
(* code inspects characters (suffix, lower(), replace()); elsewhere a      *)
(* message or a name is one TLA+ string.                                   *)
(***************************************************************************)
EXTENDS Integers, Sequences, FiniteSets, TLC

VARIABLES
    \* ---- _get_image_mime_type ----
    mime_stem,      \* the part of image_path before the extension under test
    mime_ext,       \* the extension text appended to it
    mime_result,    \* what _get_image_mime_type returned, or NoValue
    mime_pc,        \* "idle" | "ready" | "done"
    \* ---- _load_frame_prompt ----
    pr_files,       \* candidate template files: content, or NoFile
    pr_custom,      \* the custom_prompt argument: NoneText or text
    pr_result,      \* what _load_frame_prompt returned, or NoText
    pr_prev,        \* what the call before the last one returned, or NoText
    pr_calls,       \* how many calls have been made
    pr_pc,          \* "idle" | "ready" | "done"
    \* ---- ImageAnalyzer ----
    an_config,      \* what config_manager.get_config() returns
    an_initial_clients, \* self.clients as __init__ left it
    an_clients,     \* self.clients: registered name -> the handle's model
    an_args,        \* the arguments of the last analyze_image call
    an_gen,         \* what client.generate did (or would have done) in that call
    an_outcome,     \* what that call gave its caller: a record, or an exception
    an_generate_called, \* whether that call invoked client.generate
    an_pc,          \* "idle" | "constructed" | "running" | "returned" | "raised"
    \* ---- image-analyzer command ----
    cli_config,     \* the configuration after setup_config
    cli_args,       \* the parsed arguments
    cli_gen,        \* what client.generate did in this run
    cli_record,     \* what analyze_image returned, or NoRecord
    cli_saved,      \* the record written to image_analysis.json, or NoRecord
    cli_exit,       \* the exit code, once cli_pc = "exited"
    cli_pc,         \* "idle" | "started" | "exited"
    \* ---- FolderProcessor.process_folder ----
    pf_folder_exists, \* whether folder_path names an existing directory
    pf_listing,     \* the names in the folder, in directory order
    pf_output_dir,  \* the output_dir argument: None or a directory
    pf_default_output, \* the *.json files of ./output, in directory order
    pf_item_dirs,   \* per-item output directory -> the artifact in it
    pf_video_files, \* video_files, once discovered
    pf_image_files, \* image_files, once discovered
    pf_file_count,  \* file_count
    pf_results,     \* results, as a sequence of [key, entry] in insertion order
    pf_saved,       \* media_descriptions.json: whether it exists, and its content
    pf_runs,        \* the runs of the single-item programs so far, in order
    pf_pc,          \* "idle" | "called" | "loop" | "done" | "summarised"
    pf_summary,     \* the counters print_summary printed, or NoSummary
    \* ---- process_image / process_video: the command line ----
    cm_model,       \* the model argument of FolderProcessor(...): NoneText or text
    cm_prompt,      \* self.prompt: NoneText or text
    cm_whisper,     \* self.whisper_model: NoneText or text
    cm_env,         \* os.environ: the value of OPENAI_API_KEY, or NotInEnv
    cm_output_dir,  \* the output_dir argument: NoneText or text
    cm_cmd,         \* cmd as handed to subprocess.run, or << >>
    cm_printed,     \* the "Running command: ..." line printed, or NoText
    cm_result,      \* the dict returned, or NoRecord
    cm_pc,          \* "idle" | "ready" | "done"
    \* ---- ImageAnalyzer.save_analysis ----
    sv_record,      \* the analysis_result argument
    sv_output_dir,  \* the output_dir argument
    sv_at_path,     \* what is at output_dir: "absent" | "dir" | "file"
    sv_file,        \* the content of image_analysis.json in it, or NoRecord
    sv_fault,       \* what went wrong in the file system during the call
    sv_created,     \* whether the call created the directory
    sv_outcome,     \* what the call gave its caller: a path, or an exception
    sv_pc,          \* "idle" | "ready" | "done"
    \* ---- batch_analyze_images ----
    bt_dir,         \* the image_dir argument as a path
    bt_dir_exists,  \* whether that directory exists
    bt_listing,     \* the file names in it, in directory order
    bt_config,      \* what ConfigManager().get_config() returns
    bt_client,      \* kwargs.get('client')
    bt_found,       \* image_files: the paths the globs gave, in order
    bt_passed,      \* the image_path of each analyze_image call, in order
    bt_results,     \* results, as a sequence of [key, entry] in insertion order
    bt_outcome,     \* "none" | "returned" | "ValueError"
    bt_pc           \* "idle" | "ready" | "done"

mimeVars == <<mime_stem, mime_ext, mime_result, mime_pc>>

promptVars == <<pr_files, pr_custom, pr_result, pr_prev, pr_calls, pr_pc>>

analyzeVars == <<an_config, an_initial_clients, an_clients, an_args, an_gen, an_outcome, an_generate_called, an_pc>>

cliVars == <<cli_config, cli_args, cli_gen, cli_record, cli_saved, cli_exit, cli_pc>>

folderVars == <<pf_folder_exists, pf_listing, pf_output_dir, pf_default_output, pf_item_dirs, pf_video_files,
                pf_image_files, pf_file_count, pf_results, pf_saved, pf_runs, pf_pc, pf_summary>>

commandVars == <<cm_model, cm_prompt, cm_whisper, cm_env, cm_output_dir, cm_cmd, cm_printed,
                 cm_result, cm_pc>>

saveVars == <<sv_record, sv_output_dir, sv_at_path, sv_file, sv_fault, sv_created, sv_outcome,
              sv_pc>>

batchVars == <<bt_dir, bt_dir_exists, bt_listing, bt_config, bt_client, bt_found, bt_passed,
               bt_results, bt_outcome, bt_pc>>

vars == <<mimeVars, promptVars, analyzeVars, cliVars, folderVars, commandVars,
         saveVars, batchVars>>

\* Python's None, and the marker of a variable no call has written yet.
None == "None"
NoValue == "NoValue"

\* The same two where the value is otherwise text held as characters: a
\* sequence whose one element is no character.
NoneText == <<"None">>
NoText == <<"NoValue">>

(***************************************************************************)
(* Text helpers                                                            *)
(***************************************************************************)
UpperLetters == <<"A","B","C","D","E","F","G","H","I","J","K","L","M",
                  "N","O","P","Q","R","S","T","U","V","W","X","Y","Z">>
LowerLetters == <<"a","b","c","d","e","f","g","h","i","j","k","l","m",
                  "n","o","p","q","r","s","t","u","v","w","x","y","z">>

\* str.lower() on one character
LowerChar(c) ==
    IF \E i \in 1..Len(UpperLetters) : UpperLetters[i] = c
    THEN LowerLetters[CHOOSE i \in 1..Len(UpperLetters) : UpperLetters[i] = c]
    ELSE c

\* str.lower()
Lower(s) == [i \in 1..Len(s) |-> LowerChar(s[i])]

\* str.rfind(c), 1-based; 0 when c does not occur
RFind(s, c) ==
    IF \E i \in 1..Len(s) : s[i] = c
    THEN CHOOSE i \in 1..Len(s) : s[i] = c /\ \A j \in (i+1)..Len(s) : s[j] # c
    ELSE 0

\* s with its trailing occurrences of c removed (str.rstrip(c))
RECURSIVE RStrip(_, _)
RStrip(s, c) ==
    IF Len(s) > 0 /\ s[Len(s)] = c THEN RStrip(SubSeq(s, 1, Len(s) - 1), c) ELSE s

(***************************************************************************)
(* core.py: ImageAnalyzer._get_image_mime_type                             *)
(***************************************************************************)
\* pathlib: PurePath(p).name, the final component; "/" separates, empty and
\* "." components are dropped, so trailing slashes do not count.
RECURSIVE PathName(_)
PathName(p) ==
    LET q == RStrip(p, "/")
        i == RFind(q, "/")
        last == SubSeq(q, i + 1, Len(q))
    IN  IF Len(q) = 0 THEN <<>>
        ELSE IF last = <<".">> THEN PathName(SubSeq(q, 1, i))
        ELSE last

\* pathlib: PurePath(p).suffix. The last dot of the name starts the suffix
\* unless it is the first or the last character of the name.
PathSuffix(p) ==
    LET name == PathName(p)
        i == RFind(name, ".")
    IN  IF 1 < i /\ i < Len(name) THEN SubSeq(name, i, Len(name)) ELSE <<>>

\* core.py:91-98, the mime_types table
MimeTypes == [e \in {<<".","j","p","g">>, <<".","j","p","e","g">>, <<".","p","n","g">>,
                     <<".","g","i","f">>, <<".","w","e","b","p">>, <<".","b","m","p">>} |->
    CASE e = <<".","j","p","g">>     -> "image/jpeg"
      [] e = <<".","j","p","e","g">> -> "image/jpeg"
      [] e = <<".","p","n","g">>     -> "image/png"
      [] e = <<".","g","i","f">>     -> "image/gif"
      [] e = <<".","w","e","b","p">> -> "image/webp"
      [] e = <<".","b","m","p">>     -> "image/bmp"]

\* mime_types.get(ext, 'image/jpeg')
MimeLookup(ext) == IF ext \in DOMAIN MimeTypes THEN MimeTypes[ext] ELSE "image/jpeg"

\* A slip the table lookup would not forgive: the suffix is not lower-cased.
GetImageMimeType_NoLower(image_path) == MimeLookup(PathSuffix(image_path))

GetImageMimeType(image_path) == MimeLookup(Lower(PathSuffix(image_path)))

\* The paths tried: every stem with every extension text.
MimeStems == { <<>>, <<"a">>, <<"d","/","a">>, <<"d",".","x","/","a">>, <<"a",".","b">>,
               <<"d","/">>, <<"A",".","P","N","G",".","t">> }
MimeExts == { <<".","j","p","g">>, <<".","J","P","G">>, <<".","j","p","e","g">>,
              <<".","J","p","e","G">>, <<".","p","n","g">>, <<".","P","N","G">>,
              <<".","g","i","f">>, <<".","G","i","f">>, <<".","w","e","b","p">>,
              <<".","W","E","B","P">>, <<".","b","m","p">>, <<".","B","M","P">>,
              <<".","t","x","t">>, <<".","p","n">>, <<".","p","n","g","x">>,
              <<".">>, <<>> }

(***************************************************************************)
(* core.py: ImageAnalyzer._load_frame_prompt                               *)
(***************************************************************************)
\* core.py:142,144, the substitution marker '{prompt}'
Marker == <<"{","p","r","o","m","p","t","}">>

\* core.py:141, the text put before the custom prompt: "I want to know: "
InjectionPrefix == <<"I"," ","w","a","n","t"," ","t","o"," ","k","n","o","w",":"," ">>

\* core.py:126-136, the built-in fallback prompt
FallbackPrompt ==
    <<"A","n","a","l","y","z","e"," ","t","h","i","s"," ","i","m","a","g","e"," ","a","n",
      "d"," ","p","r","o","v","i","d","e"," ","a"," ","d","e","t","a","i","l","e","d"," ",
      "d","e","s","c","r","i","p","t","i","o","n"," ","o","f"," ","w","h","a","t"," ","y",
      "o","u"," ","s","e","e","."," ","\n","I","n","c","l","u","d","e"," ","i","n","f","o",
      "r","m","a","t","i","o","n"," ","a","b","o","u","t",":","\n","-"," ","O","b","j","e",
      "c","t","s"," ","a","n","d"," ","p","e","o","p","l","e"," ","i","n"," ","t","h","e",
      " ","i","m","a","g","e","\n","-"," ","A","c","t","i","o","n","s"," ","o","r"," ","a",
      "c","t","i","v","i","t","i","e","s"," ","t","a","k","i","n","g"," ","p","l","a","c",
      "e","\n","-"," ","S","e","t","t","i","n","g"," ","a","n","d"," ","e","n","v","i","r",
      "o","n","m","e","n","t","\n","-"," ","C","o","l","o","r","s",","," ","l","i","g","h",
      "t","i","n","g",","," ","a","n","d"," ","c","o","m","p","o","s","i","t","i","o","n",
      "\n","-"," ","A","n","y"," ","t","e","x","t"," ","o","r"," ","s","i","g","n","s"," ",
      "v","i","s","i","b","l","e","\n","\n","{","p","r","o","m","p","t","}","\n","\n","P",
      "r","o","v","i","d","e"," ","a"," ","c","l","e","a","r",","," ","d","e","t","a","i",
      "l","e","d"," ","d","e","s","c","r","i","p","t","i","o","n"," ","i","n"," ","p","a",
      "r","a","g","r","a","p","h"," ","f","o","r","m",".">>

\* s holds sub at position i
MatchAt(s, sub, i) ==
    /\ i >= 1
    /\ i + Len(sub) - 1 <= Len(s)
    /\ SubSeq(s, i, i + Len(sub) - 1) = sub

\* str.find(sub, start), 1-based: the first position from start on where s
\* holds sub; 0 when there is none
StrFind(s, sub, start) ==
    IF \E i \in start..Len(s) : MatchAt(s, sub, i)
    THEN CHOOSE i \in start..Len(s) :
             MatchAt(s, sub, i) /\ \A j \in start..(i - 1) : ~MatchAt(s, sub, j)
    ELSE 0

\* str.replace(old, new) for a non-empty old: the occurrences are found left to
\* right, each search resuming after the previous occurrence.
RECURSIVE ReplaceFrom(_, _, _, _)
ReplaceFrom(s, old, new, i) ==
    LET j == StrFind(s, old, i)
    IN  IF j = 0 THEN SubSeq(s, i, Len(s))
        ELSE SubSeq(s, i, j - 1) \o new \o ReplaceFrom(s, old, new, j + Len(old))

StrReplace(s, old, new) == ReplaceFrom(s, old, new, 1)

\* Python truthiness of an Optional[str]: None and '' are false
Truthy(s) == s # NoneText /\ s # <<>>

\* A candidate template file that does not exist
NoFile == <<"NoFile">>

\* core.py:108-112, the candidate locations in order: prompts/image.txt,
\* ../prompts/image.txt, ../../prompts/image.txt
PromptPaths == 1..3

\* core.py:114-121: the content of the first candidate that exists, None if none
FirstExisting(files) ==
    IF \E i \in PromptPaths : files[i] # NoFile
    THEN files[CHOOSE i \in PromptPaths :
                   files[i] # NoFile /\ \A j \in PromptPaths : j < i => files[j] = NoFile]
    ELSE NoneText

\* core.py:123-136: the fallback replaces a template that is None or empty
TemplateUsed(files) ==
    IF Truthy(FirstExisting(files)) THEN FirstExisting(files) ELSE FallbackPrompt

\* A slip: the marker is filled in only when a custom prompt is given.
LoadFramePrompt_NoElse(files, custom_prompt) ==
    IF Truthy(custom_prompt)
    THEN StrReplace(TemplateUsed(files), Marker, InjectionPrefix \o custom_prompt)
    ELSE TemplateUsed(files)

\* core.py:103-146
\* A slip: the template file read is removed after the read.
FilesAfterLoad_Consumed(files) ==
    IF \E i \in PromptPaths : files[i] # NoFile
    THEN [files EXCEPT ![CHOOSE i \in PromptPaths :
                            files[i] # NoFile /\ \A j \in PromptPaths : j < i => files[j] = NoFile]
                        = NoFile]
    ELSE files

\* core.py:114-121: the files are opened for reading only, and the call keeps
\* nothing on the analyzer: the template files after a call are those before
FilesAfterLoad(files) == files

\* The calls of _load_frame_prompt made in a row
MaxPromptCalls == 2

LoadFramePrompt(files, custom_prompt) ==
    IF Truthy(custom_prompt)
    THEN StrReplace(TemplateUsed(files), Marker, InjectionPrefix \o custom_prompt)
    ELSE StrReplace(TemplateUsed(files), Marker, <<>>)

\* The template files tried: one marker, two markers, a marker inside the two
\* halves of another, a marker followed by the tail of one, no marker, empty.
PromptFileTexts ==
    { <<"Q",":","{","p","r","o","m","p","t","}",".">>,
      <<"{","p","r","o","m","p","t","}","a","{","p","r","o","m","p","t","}">>,
      <<"{","p","r","o","{","p","r","o","m","p","t","}","m","p","t","}">>,
      <<"{","p","r","o","m","p","t","}","m","p","t","}">>,
      <<"a","b","c">>,
      <<>> }

\* The custom prompts tried: omitted, empty, plain, the marker itself, the head of one.
CustomPrompts ==
    { NoneText, <<>>, <<"x","?">>, <<"{","p","r","o","m","p","t","}">>, <<"{","p","r","o">> }

(***************************************************************************)
(* Values shared by the analyzer and the batch driver                      *)
(***************************************************************************)
\* Python truthiness of an Optional[str] held as one TLA+ string
PyTruthy(x) == x # None /\ x # ""

\* JSON values, and what a client's generate may hand back
JNull == [t |-> "null"]
JStr(s) == [t |-> "str", s |-> s]
JObj(f) == [t |-> "obj", f |-> f]

\* An exception: its class and str(e), the message, as a sequence of parts
\* (the empty sequence is the empty message).
Exc(cls, msg) == [cls |-> cls, msg |-> msg]
NoException == Exc("none", <<>>)

\* No AnalysisRecord (nothing returned, nothing saved)
NoRecord == [none |-> TRUE]

(***************************************************************************)
(* core.py: ImageAnalyzer.__init__, _setup_clients, analyze_image          *)
(***************************************************************************)
\* core.py:55,64, the client names _setup_clients recognises
ClientNames == {"ollama", "openai_api"}

\* config['clients'] has no 'default' key
Absent == "Absent"

\* What get_config() may return: the names under 'clients' and its 'default'.
Configs ==
    { [clients |-> {"ollama", "openai_api"}, default |-> "openai_api"],
      [clients |-> {"ollama"}, default |-> Absent],
      [clients |-> {"openai_api"}, default |-> Absent],
      [clients |-> {}, default |-> "ollama"],
      [clients |-> {"ollama", "other"}, default |-> "other"] }

\* A client handle whose model attribute was never set
Unset == "Unset"

\* The model a freshly constructed client handle holds.
ClientInitialModels == {Unset, "llama3.2-vision"}

\* core.py:49-73: one handle per recognised name found in the config
SetupClients(config, initial_model) ==
    [n \in (config.clients \cap ClientNames) |-> initial_model]

\* A slip: an omitted client name always means 'ollama'.
DefaultClient_Fixed(config) == "ollama"

\* core.py:172-173: config.get('clients', {}).get('default', 'ollama')
DefaultClient(config) == IF config.default = Absent THEN "ollama" ELSE config.default

\* The image paths tried: directory, file name, whether the file exists, its size.
ImagePaths ==
    { [dir |-> "d", file |-> "a.PNG", exists |-> TRUE, size |-> 7],
      [dir |-> "", file |-> "gone.jpg", exists |-> FALSE, size |-> 0],
      [dir |-> "", file |-> "notes.txt", exists |-> TRUE, size |-> 3] }

\* The characters of a file name
FileChars(file) ==
    CASE file = "a.PNG" -> <<"a",".","P","N","G">>
      [] file = "gone.jpg" -> <<"g","o","n","e",".","j","p","g">>
      [] file = "notes.txt" -> <<"n","o","t","e","s",".","t","x","t">>

\* The characters of a path
PathChars(p) ==
    IF p.dir = "" THEN FileChars(p.file) ELSE <<"d","/">> \o FileChars(p.file)

\* os.path.abspath: the working directory goes in front of a relative path
AbsPath(p) == <<"/cwd", p.dir, p.file>>

\* the path as given
RawPath(p) == <<p.dir, p.file>>

\* os.path.basename
BaseName(p) == p.file

\* What client.generate may do: return text, return an object with a response,
\* return nothing, raise with a message, raise with an empty message.
GenOutcomes ==
    { [kind |-> "returns", value |-> JStr("a cat"), exc |-> NoException],
      [kind |-> "returns", value |-> JObj([response |-> JStr("a cat")]), exc |-> NoException],
      [kind |-> "returns", value |-> JNull, exc |-> NoException],
      [kind |-> "raises", value |-> JNull,
       exc |-> Exc("ConnectionError", <<"connection refused">>)],
      [kind |-> "raises", value |-> JNull, exc |-> Exc("TimeoutError", <<>>)] }

\* len(x) is defined
HasLen(v) == v.t \in {"str", "obj"}

\* The classes raised below; each is a subclass of Exception.
ExceptionSubclasses ==
    {"FileNotFoundError", "ValueError", "AttributeError", "TypeError",
     "ConnectionError", "TimeoutError", "OSError"}

\* A slip: the handler names only the errors analyze_image raises itself.
Catches_OwnErrors(exc) == exc.cls \in {"FileNotFoundError", "ValueError"}

\* core.py:224: except Exception
Catches(exc) == exc.cls \in ExceptionSubclasses

\* A slip: the error record claims success.
ErrorRecord_FlagTrue(image_path, exc) ==
    [ image_path |-> IF image_path.exists THEN AbsPath(image_path) ELSE RawPath(image_path),
      image_filename |-> BaseName(image_path),
      error |-> exc.msg,
      metadata |-> [analysis_successful |-> TRUE] ]

\* core.py:226-233
ErrorRecord(image_path, exc) ==
    [ image_path |-> IF image_path.exists THEN AbsPath(image_path) ELSE RawPath(image_path),
      image_filename |-> BaseName(image_path),
      error |-> exc.msg,
      metadata |-> [analysis_successful |-> FALSE] ]

\* core.py:205-219
SuccessRecord(image_path, client_name, model, prompt, description) ==
    [ image_path |-> AbsPath(image_path),
      image_filename |-> BaseName(image_path),
      analysis |-> [ client |-> client_name, model |-> model,
                     prompt_used |-> prompt, description |-> description ],
      metadata |-> [ file_size |-> image_path.size,
                     mime_type |-> GetImageMimeType(PathChars(image_path)),
                     analysis_successful |-> TRUE ] ]

\* core.py:148-233. The call on the handles `clients`: the handles afterwards,
\* whether generate was invoked, and what the caller gets: a record returned or
\* an exception raised.
AnalyzeImage(clients, config, files, image_path, client_name, model, custom_prompt, gen) ==
    LET name == IF PyTruthy(client_name) THEN client_name ELSE DefaultClient(config)
        resolved == image_path.exists /\ name \in DOMAIN clients
        \* core.py:185-187: the override is written into the shared handle
        clients1 == IF resolved /\ PyTruthy(model)
                    THEN [clients EXCEPT ![name] = model] ELSE clients
        called == resolved /\ clients1[name] # Unset
        prompt == LoadFramePrompt(files, custom_prompt)
        \* the first exception raised in the try block, core.py:164-222
        exc == CASE ~image_path.exists ->
                      Exc("FileNotFoundError",
                          <<"Image file not found: ", image_path.dir, image_path.file>>)
                 [] image_path.exists /\ name \notin DOMAIN clients ->
                      Exc("ValueError", <<"Client '", name, "' not configured">>)
                 [] resolved /\ clients1[name] = Unset ->
                      Exc("AttributeError", <<"client object has no attribute 'model'">>)
                 [] called /\ gen.kind = "raises" -> gen.exc
                 [] called /\ gen.kind = "returns" /\ ~HasLen(gen.value) ->
                      Exc("TypeError", <<"object of type 'NoneType' has no len()">>)
                 [] OTHER -> NoException
    IN  [ clients |-> clients1,
          generate_called |-> called,
          outcome |->
              IF exc = NoException
              THEN [kind |-> "returned",
                    record |-> SuccessRecord(image_path, name, clients1[name], prompt,
                                             gen.value)]
              ELSE IF Catches(exc)
              THEN [kind |-> "returned", record |-> ErrorRecord(image_path, exc)]
              ELSE [kind |-> "raised", exc |-> exc] ]

\* The arguments tried
ClientNameArgs == {None, "", "ollama", "openai_api", "other"}
ModelArgs == {None, "", "llava"}
CustomPromptArgs == { NoneText, <<"x","?">> }

(***************************************************************************)
(* cli.py: validate_image_file, main                                       *)
(***************************************************************************)
\* cli.py:136
SupportedExtensions ==
    { <<".","j","p","g">>, <<".","j","p","e","g">>, <<".","p","n","g">>,
      <<".","g","i","f">>, <<".","w","e","b","p">>, <<".","b","m","p">> }

\* cli.py:129-145
ValidateImageFile(image_path) ==
    /\ image_path.exists
    /\ Lower(PathSuffix(PathChars(image_path))) \in SupportedExtensions

\* dict.get('error') is truthy: the key is there and its message is not empty
ErrorTruthy(record) == "error" \in DOMAIN record /\ record.error # <<>>

\* cli.py:186-252. What one run of the command ends with: the record analyze_image
\* returned, the record written to image_analysis.json, the exit code.
Main(config, initial_model, files, args, gen, save_ok) ==
    IF ~ValidateImageFile(args.image_path)
    THEN [record |-> NoRecord, saved |-> NoRecord, exit |-> 1]
    ELSE LET res == AnalyzeImage(SetupClients(config, initial_model), config, files,
                                 args.image_path, args.client, args.model, args.prompt, gen)
         IN  IF res.outcome.kind = "raised"
             THEN [record |-> NoRecord, saved |-> NoRecord, exit |-> 1]
             ELSE IF ErrorTruthy(res.outcome.record)
             THEN [record |-> res.outcome.record, saved |-> NoRecord, exit |-> 1]
             ELSE IF save_ok
             THEN [record |-> res.outcome.record, saved |-> res.outcome.record, exit |-> 0]
             ELSE [record |-> res.outcome.record, saved |-> NoRecord, exit |-> 1]

\* cli.py:70-74: --client takes one of the two names, or is left out
CliClientArgs == {None, "ollama", "openai_api"}

(***************************************************************************)
(* folder_processor.py: FolderProcessor, discovery                         *)
(***************************************************************************)
\* folder_processor.py:26-27, the glob patterns '*.<ext>' in list order
VideoExtensions == <<"mp4", "avi", "mov", "mkv", "wmv", "flv", "webm", "m4v">>
ImageExtensions == <<"jpg", "jpeg", "png", "gif", "webp", "bmp">>

\* The names a folder may hold
FolderFileNames == {"b.mp4", "a.mp4", "a.jpg", "a.png", "notes.txt"}

\* os.path.splitext(name): the stem and the extension after the last dot
SplitExt(name) ==
    CASE name = "b.mp4" -> [stem |-> "b", ext |-> "mp4"]
      [] name = "a.mp4" -> [stem |-> "a", ext |-> "mp4"]
      [] name = "a.jpg" -> [stem |-> "a", ext |-> "jpg"]
      [] name = "a.png" -> [stem |-> "a", ext |-> "png"]
      [] name = "notes.txt" -> [stem |-> "notes", ext |-> "txt"]
      [] name = "B.PNG" -> [stem |-> "B", ext |-> "PNG"]
      [] name = "C.MP4" -> [stem |-> "C", ext |-> "MP4"]
      [] name = ".h.png" -> [stem |-> ".h", ext |-> "png"]

\* Whether the name begins with a dot: glob's '*' matches no such name
IsHidden(name) == name = ".h.png"

\* What glob sees in the folder: the entries of an existing directory, and
\* nothing (without an exception) when there is no such directory
ScanDir(folder_exists, listing) == IF folder_exists THEN listing ELSE << >>

\* The names in s with the given extension, in the order of s
RECURSIVE SelectSeqByExt(_, _)
SelectSeqByExt(s, ext) ==
    IF s = <<>> THEN <<>>
    ELSE (IF SplitExt(Head(s)).ext = ext /\ ~IsHidden(Head(s)) THEN <<Head(s)>> ELSE <<>>)
         \o SelectSeqByExt(Tail(s), ext)

\* glob(os.path.join(folder_path, '*.<ext>')): the entries of the folder, in
\* directory order, whose name ends with the extension as written
Glob(listing, ext) == SelectSeqByExt(listing, ext)

\* folder_processor.py:128-158: one glob per extension, appended in list order
RECURSIVE FindMedia(_, _)
FindMedia(listing, extensions) ==
    IF extensions = <<>> THEN <<>>
    ELSE Glob(listing, Head(extensions)) \o FindMedia(listing, Tail(extensions))

FindVideos(listing) == FindMedia(listing, VideoExtensions)
FindImages(listing) == FindMedia(listing, ImageExtensions)

\* A slip: the images are queued before the videos.
ProcessingQueue_ImagesFirst(video_files, image_files) ==
    [i \in 1..(Len(video_files) + Len(image_files)) |->
        IF i <= Len(image_files)
        THEN [file |-> image_files[i], type |-> "image"]
        ELSE [file |-> video_files[i - Len(image_files)], type |-> "video"]]

\* folder_processor.py:183,242: the video loop runs to its end, then the image loop
ProcessingQueue(video_files, image_files) ==
    [i \in 1..(Len(video_files) + Len(image_files)) |->
        IF i <= Len(video_files)
        THEN [file |-> video_files[i], type |-> "video"]
        ELSE [file |-> image_files[i - Len(video_files)], type |-> "image"]]

(***************************************************************************)
(* folder_processor.py: process_video, process_image                       *)
(***************************************************************************)
\* folder_processor.py:64,115: timeout=300, in seconds
SubprocessTimeout == 300

\* No file at the place looked at
NoArtifact == [t |-> "nofile"]

\* A file that json.load cannot parse
Unparsable == [t |-> "garbage"]

\* What the single-item program may write as its JSON artifact
VideoArtifacts ==
    { JObj([video_description |-> JObj([response |-> JStr("a dog runs")]),
            transcript |-> JObj([text |-> JStr("woof")])]),
      JObj([video_description |-> JObj([response |-> JStr("a dog runs")])]) }
ImageArtifacts ==
    { JObj([analysis |-> JObj([description |-> JObj([response |-> JStr("a cat")])])]),
      JObj([analysis |-> JObj([description |-> JStr("a cat")])]) }

\* One run of the single-item program: whether it could be launched, how long
\* it ran, its exit code, and the artifact it wrote into its output directory.
RunsWriting(artifacts) ==
    { [launched |-> FALSE, duration |-> 0, returncode |-> 0, artifact |-> NoArtifact],
      [launched |-> TRUE, duration |-> SubprocessTimeout + 1, returncode |-> 0,
       artifact |-> NoArtifact],
      [launched |-> TRUE, duration |-> 2, returncode |-> 1, artifact |-> NoArtifact],
      [launched |-> TRUE, duration |-> 2, returncode |-> 0, artifact |-> NoArtifact],
      [launched |-> TRUE, duration |-> 2, returncode |-> 0, artifact |-> Unparsable] }
    \cup { [launched |-> TRUE, duration |-> 2, returncode |-> 0, artifact |-> a] :
               a \in artifacts }

VideoRuns == RunsWriting(VideoArtifacts)
ImageRuns == RunsWriting(ImageArtifacts)

\* A slip: the subprocess is waited for without a timeout.
TimedOut_Never(run) == FALSE

\* subprocess.run(..., timeout=300) raises TimeoutExpired
TimedOut(run) == run.duration > SubprocessTimeout

\* folder_processor.py:29-126, process_image and process_video: the dict returned.
\* kind is "video" or "image"; output_dir is None when the caller gave none,
\* and the run then writes into a fresh temporary directory.
ProcessItem(kind, run, output_dir) ==
    IF ~run.launched
    THEN [error |-> <<"[Errno 2] No such file or directory: ", kind, "-analyzer">>]
    ELSE IF TimedOut(run)
    THEN [error |-> <<"Timeout processing ", kind>>]
    ELSE IF run.returncode # 0
    THEN [error |-> <<"Return code ", "nonzero", ": ", "stderr">>]
    ELSE [success |-> TRUE,
          output_dir |-> IF output_dir = None THEN <<"tmp">> ELSE output_dir]

(***************************************************************************)
(* folder_processor.py: process_folder, one item                           *)
(***************************************************************************)
\* Python truthiness of a JSON value
JTruthy(v) ==
    CASE v.t = "null" -> FALSE
      [] v.t = "str" -> v.s # ""
      [] v.t = "obj" -> DOMAIN v.f # {}
      [] OTHER -> TRUE

\* a or b
Or(a, b) == IF JTruthy(a) THEN a ELSE b

\* dict.get(key), and dict.get(key, default)
Get(obj, key) == IF key \in DOMAIN obj.f THEN obj.f[key] ELSE JNull
GetOr(obj, key, default) == IF key \in DOMAIN obj.f THEN obj.f[key] ELSE default

\* value[key] raises
SubscriptFails(v, key) == v.t # "obj" \/ key \notin DOMAIN v.f

\* str(e) of the exception value[key] raises
SubscriptError(v, key) ==
    CASE v.t = "str" -> <<"string indices must be integers, not 'str'">>
      [] v.t = "null" -> <<"'NoneType' object is not subscriptable">>
      [] OTHER -> <<"'", key, "'">>

\* folder_processor.py:234,289: len(description) raises unless the value has a
\* length (a video passes the description object, an image the response)
PreviewFails(description) == description.t \notin {"str", "obj"}

\* results[key] = entry on an insertion-ordered dict, held as a sequence of
\* [key, entry]: a key already there keeps its place
DictSet(d, key, entry) ==
    IF \E i \in 1..Len(d) : d[i].key = key
    THEN [i \in 1..Len(d) |-> IF d[i].key = key THEN [key |-> key, entry |-> entry] ELSE d[i]]
    ELSE Append(d, [key |-> key, entry |-> entry])

\* folder_processor.py:193,252: the per-item output directory
MediaOutputDir(output_dir, kind, name) ==
    IF PyTruthy(output_dir) THEN <<output_dir, kind, SplitExt(name).stem>> ELSE None

\* The artifact found in the item's output directory after the run: what the
\* run wrote, else what was there before (nothing, in a fresh temporary one)
ArtifactInDir(run, media_output_dir, item_dirs) ==
    IF run.artifact # NoArtifact THEN run.artifact
    ELSE IF media_output_dir = None THEN NoArtifact
    ELSE item_dirs[media_output_dir]

\* folder_processor.py:206-215,264-271: the JSON file opened. A video falls back
\* to the first of output/*.json, an image to output/image_analysis.json.
\* A slip: an image falls back to the first of output/*.json as a video does.
LocateJson_AnyJson(kind, in_dir, default_output) ==
    IF in_dir # NoArtifact THEN in_dir
    ELSE IF default_output # <<>> THEN default_output[1].content ELSE NoArtifact

LocateJson(kind, in_dir, default_output) ==
    IF in_dir # NoArtifact THEN in_dir
    ELSE IF kind = "video"
    THEN IF default_output # <<>> THEN default_output[1].content ELSE NoArtifact
    ELSE IF \E i \in 1..Len(default_output) : default_output[i].name = "image_analysis.json"
    THEN default_output[CHOOSE i \in 1..Len(default_output) :
                            default_output[i].name = "image_analysis.json"].content
    ELSE NoArtifact

\* folder_processor.py:221-232: the success entry of a video, or the message of
\* the exception raised on the way
VideoEntry(analysis_data, run_time, abs_path) ==
    LET description == Or(Get(analysis_data, "final_description"),
                          Or(Get(analysis_data, "video_description"),
                             Or(Get(analysis_data, "description"),
                                JStr("No description available"))))
        transcript == Get(analysis_data, "transcript")
    IN  IF SubscriptFails(transcript, "text")
        THEN [raised |-> TRUE, msg |-> SubscriptError(transcript, "text")]
        ELSE IF SubscriptFails(description, "response")
        THEN [raised |-> TRUE, msg |-> SubscriptError(description, "response")]
        ELSE [raised |-> FALSE,
              entry |-> [description |-> description.f["response"],
                         type |-> "video",
                         processing_time |-> run_time,
                         transcript |-> Or(transcript.f["text"],
                                           JStr("No transcript available")),
                         file_path |-> abs_path],
              preview_of |-> description]

\* folder_processor.py:277-286: the success entry of an image, or the message of
\* the exception raised on the way
ImageEntry(analysis_data, run_time, abs_path) ==
    LET analysis == GetOr(analysis_data, "analysis", JObj(<< >>))
    IN  IF analysis.t # "obj"
        THEN [raised |-> TRUE, msg |-> <<"object has no attribute 'get'">>]
        ELSE LET analysis_response == Or(Get(analysis, "description"),
                                         Or(Get(analysis_data, "description"),
                                            JStr("No description available")))
             IN  IF SubscriptFails(analysis_response, "response")
                 THEN [raised |-> TRUE, msg |-> SubscriptError(analysis_response, "response")]
                 ELSE [raised |-> FALSE,
                       entry |-> [description |-> analysis_response.f["response"],
                                  type |-> "image",
                                  processing_time |-> run_time,
                                  file_path |-> abs_path],
                       preview_of |-> analysis_response.f["response"]]

\* folder_processor.py:298-306: save_results; os.makedirs(None) raises
SaveFails(output_dir) == ~PyTruthy(output_dir)

SaveError(output_dir) ==
    IF output_dir = None
    THEN <<"expected str, bytes or os.PathLike object, not NoneType">>
    ELSE <<"[Errno 2] No such file or directory: ''">>

\* folder_processor.py:183-239 and 242-294: the body of one loop iteration.
\* Gives the result map and the media_descriptions.json file afterwards.
ProcessOne(kind, name, run, output_dir, default_output, item_dirs, results, saved) ==
    LET media_output_dir == MediaOutputDir(output_dir, kind, name)
        result == ProcessItem(kind, run, media_output_dir)
        Failed(msg) == [results |-> DictSet(results, name, [error |-> msg, type |-> kind]),
                        saved |-> saved]
        json == LocateJson(kind, ArtifactInDir(run, media_output_dir, item_dirs),
                           default_output)
        made == IF kind = "video"
                THEN VideoEntry(json, run.duration, <<"/cwd", name>>)
                ELSE ImageEntry(json, run.duration, <<"/cwd", name>>)
        recorded == DictSet(results, name, made.entry)
    IN  IF "error" \in DOMAIN result THEN Failed(result.error)
        ELSE IF json = NoArtifact THEN Failed(<<"No JSON output found">>)
        ELSE IF json = Unparsable THEN Failed(<<"Expecting value: line 1 column 1 (char 0)">>)
        ELSE IF made.raised THEN Failed(made.msg)
        ELSE IF SaveFails(output_dir)
        THEN [results |-> DictSet(recorded, name, [error |-> SaveError(output_dir),
                                                    type |-> kind]),
              saved |-> saved]
        ELSE IF PreviewFails(made.preview_of)
        THEN [results |-> DictSet(recorded, name,
                                  [error |-> <<"object of type 'NoneType' has no len()">>,
                                   type |-> kind]),
              saved |-> [exists |-> TRUE, content |-> recorded]]
        ELSE [results |-> recorded, saved |-> [exists |-> TRUE, content |-> recorded]]

\* The item's output directory after the run
WriteItemDir(kind, name, run, output_dir, item_dirs) ==
    LET media_output_dir == MediaOutputDir(output_dir, kind, name)
    IN  IF media_output_dir # None /\ run.launched /\ run.artifact # NoArtifact
        THEN [item_dirs EXCEPT ![media_output_dir] = run.artifact]
        ELSE item_dirs

\* The per-item output directories under the output directory "out"
ItemDirs == { <<"out", kind, SplitExt(name).stem>> : kind \in {"video", "image"},
                                                    name \in FolderFileNames }

\* The most entries a folder holds
MaxFiles == 3

\* The folders: up to MaxFiles distinct names in any directory order
Listings ==
    { s \in UNION { [1..n -> FolderFileNames] : n \in 0..MaxFiles } :
        \A i, j \in 1..Len(s) : s[i] = s[j] => i = j }

\* The output_dir arguments
OutputDirs == {None, "out"}

\* What ./output holds before the batch starts
DefaultOutputs ==
    { << >>,
      << [name |-> "image_analysis.json",
          content |-> JObj([analysis |->
                       JObj([description |-> JObj([response |-> JStr("an old picture")])])])] >>,
      << [name |-> "analysis.json",
          content |-> JObj([video_description |-> JObj([response |-> JStr("an old film")]),
                            transcript |-> JObj([text |-> JStr("old words")])])] >> }

\* The names a folder may hold when only discovery is looked at: upper-case
\* extensions and a hidden file as well
DiscoverFileNames == FolderFileNames \cup {"B.PNG", "C.MP4", ".h.png"}

DiscoverListings ==
    { s \in UNION { [1..n -> DiscoverFileNames] : n \in 0..MaxFiles } :
        \A i, j \in 1..Len(s) : s[i] = s[j] => i = j }

\* media_descriptions.json not written
NotSaved == [exists |-> FALSE, content |-> << >>]


(***************************************************************************)
(* folder_processor.py: process_image, process_video, the command line     *)
(***************************************************************************)
\* The words of the command lines, as text
ImageProgram == <<"i", "m", "a", "g", "e", "-", "a", "n", "a", "l", "y", "z", "e", "r">>

VideoProgram == <<"v", "i", "d", "e", "o", "-", "a", "n", "a", "l", "y", "z", "e", "r">>

FlagPrompt == <<"-", "-", "p", "r", "o", "m", "p", "t">>

FlagClient == <<"-", "-", "c", "l", "i", "e", "n", "t">>

OpenAiClient == <<"o", "p", "e", "n", "a", "i", "_", "a", "p", "i">>

FlagApiUrl == <<"-", "-", "a", "p", "i", "-", "u", "r", "l">>

OpenAiUrl == <<"h", "t", "t", "p", "s", ":", "/", "/", "a", "p", "i", ".", "o", "p", "e",
    "n", "a", "i", ".", "c", "o", "m", "/", "v", "1">>

FlagApiKey == <<"-", "-", "a", "p", "i", "-", "k", "e", "y">>

FlagModel == <<"-", "-", "m", "o", "d", "e", "l">>

FlagWhisperModel == <<"-", "-", "w", "h", "i", "s", "p", "e", "r", "-", "m", "o", "d",
    "e", "l">>

FlagOutputDir == <<"-", "-", "o", "u", "t", "p", "u", "t", "-", "d", "i", "r">>

FlagOutput == <<"-", "-", "o", "u", "t", "p", "u", "t">>

Gpt == <<"g", "p", "t">>

\* folder_processor.py:23
DefaultModel == <<"g", "e", "m", "m", "a", "3", ":", "l", "a", "t", "e", "s", "t">>

\* folder_processor.py:61,112: the mask token
Mask == <<"*", "*", "*", "*", "*">>

\* OPENAI_API_KEY is not in os.environ
NotInEnv == <<"NotInEnv">>

\* sub in s
Contains(s, sub) == \E i \in 1..Len(s) : MatchAt(s, sub, i)

\* ' '.join(cmd)
RECURSIVE JoinCmd(_)
JoinCmd(cmd) ==
    IF cmd = << >> THEN << >>
    ELSE IF Len(cmd) = 1 THEN cmd[1]
    ELSE cmd[1] \o <<" ">> \o JoinCmd(Tail(cmd))

\* folder_processor.py:23: self.model = model or "gemma3:latest"
SelfModel(model) == IF model = NoneText \/ model = << >> THEN DefaultModel ELSE model

\* folder_processor.py:47-51,95-99: the OpenAI arguments
OpenAiArgs(env) ==
    <<FlagClient, OpenAiClient, FlagApiUrl, OpenAiUrl>>
    \o (IF env # NotInEnv THEN <<FlagApiKey, env>> ELSE << >>)

\* folder_processor.py:41-56: cmd of process_image
ImageCmd(image_path, prompt, model, env, output_dir) ==
    <<ImageProgram, image_path>>
    \o (IF prompt # NoneText THEN <<FlagPrompt, prompt>> ELSE << >>)
    \o (IF model # NoneText
        THEN (IF Contains(model, Gpt) THEN OpenAiArgs(env) ELSE << >>) \o <<FlagModel, model>>
        ELSE << >>)
    \o <<FlagOutputDir, output_dir>>

\* folder_processor.py:89-107: cmd of process_video
VideoCmd(video_path, prompt, model, whisper_model, env, output_dir) ==
    <<VideoProgram, video_path>>
    \o (IF prompt # NoneText THEN <<FlagPrompt, prompt>> ELSE << >>)
    \o (IF model # NoneText
        THEN (IF Contains(Lower(model), Gpt) THEN OpenAiArgs(env) ELSE << >>)
             \o <<FlagModel, model>> \o <<FlagWhisperModel, whisper_model>>
        ELSE << >>)
    \o <<FlagOutput, output_dir>>

\* ' '.join(cmd) raises TypeError: an element is None
JoinFails(cmd) == \E i \in 1..Len(cmd) : cmd[i] = NoneText

\* A slip: the command line is printed as it is.
DisplayCmd_Unmasked(cmd, env) == JoinCmd(cmd)

\* folder_processor.py:59-61,110-112: display_cmd
DisplayCmd(cmd, env) ==
    IF env # NotInEnv THEN StrReplace(JoinCmd(cmd), env, Mask) ELSE JoinCmd(cmd)
\* The texts of the error entries
ReturnCodePrefix == <<"R", "e", "t", "u", "r", "n", " ", "c", "o", "d", "e", " ", "1",
    ":", " ">>

ChildStderr == <<"u", "s", "a", "g", "e", " ", "e", "r", "r", "o", "r">>

TimeoutPrefix == <<"T", "i", "m", "e", "o", "u", "t", " ", "p", "r", "o", "c", "e", "s",
    "s", "i", "n", "g", " ">>

KindImage == <<"i", "m", "a", "g", "e">>

KindVideo == <<"v", "i", "d", "e", "o">>

NotFoundPrefix == <<"[", "E", "r", "r", "n", "o", " ", "2", "]", " ", "N", "o", " ", "s",
    "u", "c", "h", " ", "f", "i", "l", "e", " ", "o", "r", " ", "d", "i", "r", "e", "c",
    "t", "o", "r", "y", ":", " ", "'">>

JoinErrorText == <<"s", "e", "q", "u", "e", "n", "c", "e", " ", "i", "t", "e", "m", " ",
    "8", ":", " ", "e", "x", "p", "e", "c", "t", "e", "d", " ", "s", "t", "r", " ", "i",
    "n", "s", "t", "a", "n", "c", "e", ",", " ", "N", "o", "n", "e", "T", "y", "p", "e",
    " ", "f", "o", "u", "n", "d">>

\* folder_processor.py:64-75,115-126: what process_image / process_video
\* returns once the command has been built and printed, as text
CommandResult(kind, cmd, run, output_dir) ==
    IF ~run.launched THEN [error |-> NotFoundPrefix \o cmd[1] \o <<"'">>]
    ELSE IF TimedOut(run) THEN [error |-> TimeoutPrefix \o kind]
    ELSE IF run.returncode # 0 THEN [error |-> ReturnCodePrefix \o ChildStderr]
    ELSE [success |-> TRUE, output_dir |-> output_dir]

\* folder_processor.py:29-75 and 77-126: what the call prints and returns.
\* A command that cannot be joined is neither printed nor run.
RunCommand(kind, cmd, env, run, output_dir) ==
    IF JoinFails(cmd)
    THEN [cmd |-> cmd, printed |-> NoText, result |-> [error |-> JoinErrorText]]
    ELSE [cmd |-> cmd, printed |-> DisplayCmd(cmd, env),
          result |-> CommandResult(kind, cmd, run, output_dir)]

\* tempfile.mkdtemp(), and the per-item directory given by process_folder
TempDir == <<"/", "t", "m", "p", "/", "t", "m", "p", "k", "3">>

GivenDir == <<"o", "u", "t", "/", "i", "m", "a", "g", "e", "_", "a">>

\* The abs_path handed over by process_folder
ItemPath == <<"/", "c", "w", "d", "/", "a", ".", "j", "p", "g">>

\* folder_processor.py:32-37,80-85
EffectiveOutputDir(output_dir) == IF output_dir = NoneText THEN TempDir ELSE output_dir

\* The arguments and the environment of the calls
KeyA == <<"s", "k", "-", "1">>

KeyB == <<"k">>

ModelGpt == <<"g", "p", "t", "-", "4", "o">>

ModelGptUpper == <<"G", "P", "T", "-", "4", "o">>

PromptPlain == <<"h", "i">>

PromptWithKey == <<"i", "s", " ", "s", "k", "-", "1", " ", "o", "k">>

WhisperMedium == <<"m", "e", "d", "i", "u", "m">>

CommandEnvs == {NotInEnv, KeyA, KeyB}
CommandModels == {NoneText, ModelGpt, ModelGptUpper}
CommandPrompts == {NoneText, PromptPlain, PromptWithKey}
CommandWhispers == {WhisperMedium, NoneText}
CommandOutputDirs == {NoneText, GivenDir}
CommandRuns == RunsWriting({})


(***************************************************************************)
(* core.py: ImageAnalyzer.save_analysis                                    *)
(***************************************************************************)
\* The file a failed json.dump leaves behind: opened for writing, not complete
PartialFile == [partial |-> TRUE]

\* What can go wrong in the file system during the call
SaveFaults == {"none", "mkdir denied", "open denied", "disk full"}

\* json.dump can encode the record
Serializable(record) == "unserializable" \notin DOMAIN record

\* core.py:249: os.makedirs(output_dir, exist_ok=True) raises
MakedirsError(output_dir, at_path, fault) ==
    IF output_dir = "" THEN Exc("FileNotFoundError", <<"[Errno 2] No such file or directory: ''">>)
    ELSE IF at_path = "file" THEN Exc("FileExistsError", <<"[Errno 17] File exists: ", output_dir>>)
    ELSE IF at_path = "absent" /\ fault = "mkdir denied"
    THEN Exc("PermissionError", <<"[Errno 13] Permission denied: ", output_dir>>)
    ELSE NoException

\* core.py:250: os.path.join(output_dir, 'image_analysis.json')
OutputFile(output_dir) == <<output_dir, "image_analysis.json">>

\* A slip: the failure is logged and the path returned all the same.
SaveOutcome_Swallowed(output_dir, exc) == [kind |-> "returned", path |-> OutputFile(output_dir)]

\* core.py:253-258: the path is returned, or the exception logged and re-raised
SaveOutcome(output_dir, exc) ==
    IF exc = NoException THEN [kind |-> "returned", path |-> OutputFile(output_dir)]
    ELSE [kind |-> "raised", exc |-> exc]

\* core.py:235-260: save_analysis. Gives what is at output_dir afterwards, the
\* content of image_analysis.json afterwards, and the outcome of the call.
SaveAnalysis(record, output_dir, at_path, file, fault) ==
    LET mk == MakedirsError(output_dir, at_path, fault)
    IN  IF mk # NoException
        THEN [at_path |-> at_path, file |-> file, outcome |-> SaveOutcome(output_dir, mk)]
        ELSE IF fault = "open denied"
        THEN [at_path |-> "dir", file |-> file,
              outcome |-> SaveOutcome(output_dir,
                              Exc("PermissionError", <<"[Errno 13] Permission denied: ",
                                                       "image_analysis.json">>))]
        ELSE IF fault = "disk full"
        THEN [at_path |-> "dir", file |-> PartialFile,
              outcome |-> SaveOutcome(output_dir,
                              Exc("OSError", <<"[Errno 28] No space left on device">>))]
        ELSE IF ~Serializable(record)
        THEN [at_path |-> "dir", file |-> PartialFile,
              outcome |-> SaveOutcome(output_dir,
                              Exc("TypeError", <<"Object is not JSON serializable">>))]
        ELSE [at_path |-> "dir", file |-> record, outcome |-> SaveOutcome(output_dir, NoException)]

\* The records handed to save_analysis
SaveRecords ==
    { [image_filename |-> "a.PNG", analysis |-> [description |-> JStr("a cat")],
       metadata |-> [analysis_successful |-> TRUE]],
      [image_filename |-> "a.PNG", error |-> <<"boom">>,
       metadata |-> [analysis_successful |-> FALSE]],
      [image_filename |-> "a.PNG", analysis |-> [description |-> JNull],
       metadata |-> [analysis_successful |-> TRUE]],
      [image_filename |-> "a.PNG", unserializable |-> TRUE] }

\* The output_dir arguments: the default, a per-item directory, the empty text
SaveOutputDirs == {"output", "out/image_a", ""}

\* An image_analysis.json left by an earlier call
OldRecord == [image_filename |-> "old.jpg", analysis |-> [description |-> JStr("old")],
              metadata |-> [analysis_successful |-> TRUE]]


(***************************************************************************)
(* FolderProcessor.print_summary                                           *)
(***************************************************************************)
\* What pf_summary holds before print_summary has been called
NoSummary == [called |-> FALSE]

\* folder_processor.py:318-331 with the test for "error" left out
RECURSIVE Tally_NoErrorCheck(_, _)
Tally_NoErrorCheck(results, n) ==
    IF n = 0
    THEN [successful_videos |-> 0, successful_images |-> 0, failed |-> 0]
    ELSE LET before == Tally_NoErrorCheck(results, n - 1)
             data == results[n].entry
             \* folder_processor.py:319: data.get('type', 'unknown')
             file_type == IF "type" \in DOMAIN data THEN data.type ELSE "unknown"
         IN  IF file_type = "video"
             THEN [before EXCEPT !.successful_videos = @ + 1]
             ELSE IF file_type = "image"
                  THEN [before EXCEPT !.successful_images = @ + 1]
                  ELSE before

\* folder_processor.py:314-331: the three counters after the loop has seen
\* the first n entries of results
RECURSIVE Tally(_, _)
Tally(results, n) ==
    IF n = 0
    THEN [successful_videos |-> 0, successful_images |-> 0, failed |-> 0]
    ELSE LET before == Tally(results, n - 1)
             data == results[n].entry
             \* folder_processor.py:319: data.get('type', 'unknown')
             file_type == IF "type" \in DOMAIN data THEN data.type ELSE "unknown"
         IN  IF "error" \in DOMAIN data
             THEN [before EXCEPT !.failed = @ + 1]
             ELSE IF file_type = "video"
                  THEN [before EXCEPT !.successful_videos = @ + 1]
                  ELSE IF file_type = "image"
                       THEN [before EXCEPT !.successful_images = @ + 1]
                       ELSE before

\* folder_processor.py:308-337: what print_summary prints of the counters
PrintSummary(results) ==
    LET counted == Tally(results, Len(results))
    IN  [called |-> TRUE,
         successful_videos |-> counted.successful_videos,
         successful_images |-> counted.successful_images,
         failed |-> counted.failed,
         total_successful |-> counted.successful_videos + counted.successful_images,
         total |-> Len(results)]


(***************************************************************************)
(* cli.py: batch_analyze_images                                            *)
(***************************************************************************)
\* A path: whether it is absolute, and its components in order. Path('.')
\* has no components.
PathOf(abs, parts) == [abs |-> abs, parts |-> parts]

\* The file a path denotes: a relative path is taken from the working
\* directory, /cwd
Resolve(path) == IF path.abs THEN path.parts ELSE << <<"c","w","d">> >> \o path.parts

\* pathlib: image_dir / name, what image_dir.glob yields for a matching name
PathUnder(dir, name) == PathOf(dir.abs, dir.parts \o <<name>>)

\* os.path.join(a, b): an absolute b replaces a, a relative b is appended to a
JoinPath(a, b) == IF b.abs THEN b ELSE PathOf(a.abs, a.parts \o b.parts)

\* str.upper()
Upper(s) ==
    [i \in 1..Len(s) |->
        IF \E k \in 1..Len(LowerLetters) : LowerLetters[k] = s[i]
        THEN UpperLetters[CHOOSE k \in 1..Len(LowerLetters) : LowerLetters[k] = s[i]]
        ELSE s[i]]

\* cli.py:262
BatchImageExtensions ==
    { <<".","j","p","g">>, <<".","j","p","e","g">>, <<".","p","n","g">>,
      <<".","g","i","f">>, <<".","w","e","b","p">>, <<".","b","m","p">> }

\* cli.py:273-274: the patterns "*" + ext and "*" + ext.upper(), by their tails
BatchPatterns == BatchImageExtensions \cup { Upper(ext) : ext \in BatchImageExtensions }

\* A name matches "*" + tail: it ends with the tail, letter case included
EndsWith(name, tail) ==
    Len(name) >= Len(tail) /\ SubSeq(name, Len(name) - Len(tail) + 1, Len(name)) = tail

\* cli.py:271-274: image_files. The extensions are iterated as a set, so the
\* patterns come in an order the language does not fix; the names one pattern
\* matches come in directory order.
FoundOrders(dir, listing) ==
    LET matched == {i \in 1..Len(listing) :
                       \E tail \in BatchPatterns : EndsWith(listing[i], tail)}
    IN  { [k \in 1..Cardinality(matched) |-> PathUnder(dir, listing[order[k]])] :
            order \in { o \in [1..Cardinality(matched) -> matched] :
                          /\ \A a, b \in DOMAIN o : a # b => o[a] # o[b]
                          /\ \A a, b \in DOMAIN o :
                                (/\ a < b
                                 /\ \E tail \in BatchPatterns :
                                       /\ EndsWith(listing[o[a]], tail)
                                       /\ EndsWith(listing[o[b]], tail))
                                => o[a] < o[b] } }

\* Path.name
NameOf(path) == path.parts[Len(path.parts)]

\* os.path.exists of a path, the directory holding the listed files
FileExists(path, dir, dir_exists, listing) ==
    /\ dir_exists
    /\ \E i \in 1..Len(listing) : Resolve(path) = Resolve(PathUnder(dir, listing[i]))

\* core.py:148-233, analyze_image as the batch calls it (no model override,
\* no custom prompt): the keys of the record the batch reads
AnalysisOf(clients, config, exists, image_path, client_name, gen) ==
    LET name == IF PyTruthy(client_name) THEN client_name ELSE DefaultClient(config)
    IN  IF ~exists
        THEN [error |-> <<"Image file not found: ", image_path>>]
        ELSE IF name \notin DOMAIN clients
        THEN [error |-> <<"Client '", name, "' not configured">>]
        ELSE IF gen.kind = "raises"
        THEN [error |-> gen.exc.msg]
        ELSE IF ~HasLen(gen.value)
        THEN [error |-> <<"object of type 'NoneType' has no len()">>]
        ELSE [analysis |-> [description |-> gen.value]]

\* cli.py:288-309: results after the loop has seen the first n image files;
\* 299-305 is what the batch records of one analysis
RECURSIVE BatchLoop(_, _, _, _, _, _, _, _)
BatchLoop(dir, dir_exists, listing, config, client, found, gens, n) ==
    IF n = 0 THEN << >>
    ELSE LET image_path == JoinPath(dir, found[n])
             result == AnalysisOf(SetupClients(config, "llama3.2-vision"), config,
                                  FileExists(image_path, dir, dir_exists, listing),
                                  image_path, client, gens[n])
             entry == IF ErrorTruthy(result) THEN [error |-> result.error]
                      ELSE IF "analysis" \in DOMAIN result
                      THEN result.analysis.description
                      ELSE JStr("No description")
         IN  DictSet(BatchLoop(dir, dir_exists, listing, config, client, found, gens, n - 1),
                     NameOf(found[n]), entry)

\* The directory arguments tried: /data/imgs, imgs, and "."
BatchDirs ==
    { PathOf(TRUE, << <<"d","a","t","a">>, <<"i","m","g","s">> >>),
      PathOf(FALSE, << <<"i","m","g","s">> >>),
      PathOf(FALSE, << >>) }

\* The names a directory may hold
BatchFileNames ==
    { <<"a",".","j","p","g">>, <<"B",".","P","N","G">>, <<"c",".","P","n","g">>,
      <<"n","o","t","e","s",".","t","x","t">> }

\* The most entries such a directory holds
MaxBatchFiles == 2

BatchListings ==
    { s \in UNION { [1..n -> BatchFileNames] : n \in 0..MaxBatchFiles } :
        \A i, j \in 1..Len(s) : s[i] = s[j] => i = j }


(***************************************************************************)
(* The variables of a component no call of which is being modelled         *)
(***************************************************************************)
MimeIdle ==
    /\ mime_stem = <<>>
    /\ mime_ext = <<>>
    /\ mime_result = NoValue
    /\ mime_pc = "idle"

PromptIdle ==
    /\ pr_files = [i \in PromptPaths |-> NoFile]
    /\ pr_custom = NoneText
    /\ pr_result = NoText
    /\ pr_prev = NoText
    /\ pr_calls = 0
    /\ pr_pc = "idle"

AnalyzeIdle ==
    /\ an_config = [clients |-> {}, default |-> Absent]
    /\ an_initial_clients = << >>
    /\ an_clients = << >>
    /\ an_args = NoRecord
    /\ an_gen = NoRecord
    /\ an_outcome = NoRecord
    /\ an_generate_called = FALSE
    /\ an_pc = "idle"

CliIdle ==
    /\ cli_config = [clients |-> {}, default |-> Absent]
    /\ cli_args = NoRecord
    /\ cli_gen = NoRecord
    /\ cli_record = NoRecord
    /\ cli_saved = NoRecord
    /\ cli_exit = 0
    /\ cli_pc = "idle"

\* The template files where the analyzer runs: prompts/image.txt holds a short
\* template and the two other candidates do not exist.
ShortTemplateFiles ==
    [i \in PromptPaths |->
        IF i = 1 THEN <<"Q",":","{","p","r","o","m","p","t","}",".">> ELSE NoFile]

FolderIdle ==
    /\ pf_folder_exists = TRUE
    /\ pf_listing = << >>
    /\ pf_output_dir = None
    /\ pf_default_output = << >>
    /\ pf_item_dirs = [d \in ItemDirs |-> NoArtifact]
    /\ pf_video_files = << >>
    /\ pf_image_files = << >>
    /\ pf_file_count = 0
    /\ pf_results = << >>
    /\ pf_saved = NotSaved
    /\ pf_runs = << >>
    /\ pf_pc = "idle"
    /\ pf_summary = NoSummary


CommandIdle ==
    /\ cm_model = NoneText
    /\ cm_prompt = NoneText
    /\ cm_whisper = NoneText
    /\ cm_env = NotInEnv
    /\ cm_output_dir = NoneText
    /\ cm_cmd = << >>
    /\ cm_printed = NoText
    /\ cm_result = NoRecord
    /\ cm_pc = "idle"


SaveIdle ==
    /\ sv_record = NoRecord
    /\ sv_output_dir = ""
    /\ sv_at_path = "absent"
    /\ sv_file = NoRecord
    /\ sv_fault = "none"
    /\ sv_created = FALSE
    /\ sv_outcome = NoRecord
    /\ sv_pc = "idle"


BatchIdle ==
    /\ bt_dir = PathOf(FALSE, << >>)
    /\ bt_dir_exists = TRUE
    /\ bt_listing = << >>
    /\ bt_config = [clients |-> {}, default |-> Absent]
    /\ bt_client = None
    /\ bt_found = << >>
    /\ bt_passed = << >>
    /\ bt_results = << >>
    /\ bt_outcome = "none"
    /\ bt_pc = "idle"


(***************************************************************************)
(* _get_image_mime_type called once on each path                           *)
(***************************************************************************)
InitMime ==
    /\ mime_stem \in MimeStems
    /\ mime_ext \in MimeExts
    /\ mime_result = NoValue
    /\ mime_pc = "ready"
    /\ PromptIdle /\ AnalyzeIdle /\ CliIdle /\ FolderIdle /\ CommandIdle /\ SaveIdle /\ BatchIdle

CallGetImageMimeType ==
    /\ mime_pc = "ready"
    /\ mime_result' = GetImageMimeType(mime_stem \o mime_ext)
    /\ mime_pc' = "done"
    /\ UNCHANGED <<mime_stem, mime_ext, promptVars, analyzeVars, cliVars, folderVars,
                   commandVars, saveVars, batchVars>>

NextMime == CallGetImageMimeType

SpecMime == InitMime /\ [][NextMime]_vars

(***************************************************************************)
(* _load_frame_prompt called once on each state of the template files      *)
(***************************************************************************)
InitPrompt ==
    /\ pr_files \in [PromptPaths -> PromptFileTexts \cup {NoFile}]
    /\ pr_custom \in CustomPrompts
    /\ pr_result = NoText
    /\ pr_prev = NoText
    /\ pr_calls = 0
    /\ pr_pc = "ready"
    /\ MimeIdle /\ AnalyzeIdle /\ CliIdle /\ FolderIdle /\ CommandIdle /\ SaveIdle /\ BatchIdle

\* One call; a later call is made with the same custom_prompt
CallLoadFramePrompt ==
    /\ pr_pc \in {"ready", "done"}
    /\ pr_calls < MaxPromptCalls
    /\ pr_result' = LoadFramePrompt(pr_files, pr_custom)
    /\ pr_files' = FilesAfterLoad(pr_files)
    /\ pr_prev' = pr_result
    /\ pr_calls' = pr_calls + 1
    /\ pr_pc' = "done"
    /\ UNCHANGED <<pr_custom, mimeVars, analyzeVars, cliVars, folderVars, commandVars,
                   saveVars, batchVars>>

NextPrompt == CallLoadFramePrompt

SpecPrompt == InitPrompt /\ [][NextPrompt]_vars

(***************************************************************************)
(* One ImageAnalyzer, analyze_image called on it again and again           *)
(***************************************************************************)
InitAnalyze ==
    /\ an_config \in Configs
    /\ \E m \in ClientInitialModels : an_clients = SetupClients(an_config, m)
    /\ an_initial_clients = an_clients
    /\ an_args = NoRecord
    /\ an_gen = NoRecord
    /\ an_outcome = NoRecord
    /\ an_generate_called = FALSE
    /\ an_pc = "constructed"
    /\ pr_files = ShortTemplateFiles
    /\ pr_custom = NoneText /\ pr_result = NoText /\ pr_pc = "idle"
    /\ pr_prev = NoText /\ pr_calls = 0
    /\ MimeIdle /\ CliIdle /\ FolderIdle /\ CommandIdle /\ SaveIdle /\ BatchIdle

\* A caller invokes analyze_image(image_path, client_name, model, custom_prompt).
CallAnalyzeImage ==
    /\ an_pc \in {"constructed", "returned"}
    /\ \E image_path \in ImagePaths, client_name \in ClientNameArgs, model \in ModelArgs,
          custom_prompt \in CustomPromptArgs :
          an_args' = [image_path |-> image_path, client_name |-> client_name,
                      model |-> model, custom_prompt |-> custom_prompt]
    /\ an_gen' = NoRecord
    /\ an_outcome' = NoRecord
    /\ an_generate_called' = FALSE
    /\ an_pc' = "running"
    /\ UNCHANGED <<an_config, an_initial_clients, an_clients, mimeVars, promptVars, cliVars,
                   folderVars, commandVars, saveVars, batchVars>>

\* The body of analyze_image runs to its end; gen is what client.generate does
\* if the body gets to it.
AnalyzeImageEnds ==
    /\ an_pc = "running"
    /\ \E gen \in GenOutcomes :
          LET res == AnalyzeImage(an_clients, an_config, pr_files, an_args.image_path,
                                  an_args.client_name, an_args.model,
                                  an_args.custom_prompt, gen)
          IN  /\ an_gen' = gen
              /\ an_clients' = res.clients
              /\ an_generate_called' = res.generate_called
              /\ an_outcome' = res.outcome
              /\ an_pc' = IF res.outcome.kind = "returned" THEN "returned" ELSE "raised"
    /\ UNCHANGED <<an_config, an_initial_clients, an_args, mimeVars, promptVars, cliVars,
                   folderVars, commandVars, saveVars, batchVars>>

NextAnalyze == CallAnalyzeImage \/ AnalyzeImageEnds

SpecAnalyze == InitAnalyze /\ [][NextAnalyze]_vars

(***************************************************************************)
(* One run of the image-analyzer command                                   *)
(***************************************************************************)
InitCli ==
    /\ cli_config \in Configs
    /\ cli_args = NoRecord
    /\ cli_gen = NoRecord
    /\ cli_record = NoRecord
    /\ cli_saved = NoRecord
    /\ cli_exit = 0
    /\ cli_pc = "started"
    /\ pr_files = ShortTemplateFiles
    /\ pr_custom = NoneText /\ pr_result = NoText /\ pr_pc = "idle"
    /\ pr_prev = NoText /\ pr_calls = 0
    /\ MimeIdle /\ AnalyzeIdle /\ FolderIdle /\ CommandIdle /\ SaveIdle /\ BatchIdle

RunMain ==
    /\ cli_pc = "started"
    /\ \E image_path \in ImagePaths, client \in CliClientArgs, model \in ModelArgs,
          prompt \in CustomPromptArgs, gen \in GenOutcomes, save_ok \in BOOLEAN,
          m \in ClientInitialModels :
          LET args == [image_path |-> image_path, client |-> client, model |-> model,
                       prompt |-> prompt]
              run == Main(cli_config, m, pr_files, args, gen, save_ok)
          IN  /\ cli_args' = args
              /\ cli_gen' = gen
              /\ cli_record' = run.record
              /\ cli_saved' = run.saved
              /\ cli_exit' = run.exit
    /\ cli_pc' = "exited"
    /\ UNCHANGED <<cli_config, mimeVars, promptVars, analyzeVars, folderVars, commandVars,
                   saveVars, batchVars>>

NextCli == RunMain

SpecCli == InitCli /\ [][NextCli]_vars

(***************************************************************************)
(* Specification: one call of process_folder                               *)
(***************************************************************************)
InitFolder ==
    /\ pf_folder_exists \in BOOLEAN
    /\ pf_listing \in Listings
    /\ ~pf_folder_exists => pf_listing = << >>
    /\ pf_output_dir \in OutputDirs
    /\ pf_default_output \in DefaultOutputs
    /\ pf_item_dirs = [d \in ItemDirs |-> NoArtifact]
    /\ pf_video_files = << >>
    /\ pf_image_files = << >>
    /\ pf_file_count = 0
    /\ pf_results = << >>
    /\ pf_saved = NotSaved
    /\ pf_runs = << >>
    /\ pf_pc = "called"
    /\ pf_summary = NoSummary
    /\ MimeIdle /\ PromptIdle /\ AnalyzeIdle /\ CliIdle /\ CommandIdle /\ SaveIdle /\ BatchIdle

\* folder_processor.py:169-180: discovery; an empty folder returns {} at once
FindAllMedia ==
    /\ pf_pc = "called"
    /\ pf_video_files' = FindVideos(ScanDir(pf_folder_exists, pf_listing))
    /\ pf_image_files' = FindImages(ScanDir(pf_folder_exists, pf_listing))
    /\ pf_pc' = IF Len(FindVideos(ScanDir(pf_folder_exists, pf_listing)))
                   + Len(FindImages(ScanDir(pf_folder_exists, pf_listing))) = 0
                THEN "done" ELSE "loop"
    /\ UNCHANGED <<pf_summary, pf_folder_exists, pf_listing, pf_output_dir,
                   pf_default_output, pf_item_dirs, pf_file_count, pf_results, pf_saved,
                   pf_runs, mimeVars, promptVars, analyzeVars, cliVars, commandVars,
                   saveVars, batchVars>>

\* The item the loops reach next
NextItem == ProcessingQueue(pf_video_files, pf_image_files)[pf_file_count + 1]

\* The effect of one loop iteration on the item, the single-item program
\* behaving as run
Iterate(kind, run) ==
    LET after == ProcessOne(kind, NextItem.file, run, pf_output_dir, pf_default_output,
                            pf_item_dirs, pf_results, pf_saved)
    IN  /\ pf_results' = after.results
        /\ pf_saved' = after.saved
        /\ pf_item_dirs' = WriteItemDir(kind, NextItem.file, run, pf_output_dir, pf_item_dirs)
        /\ pf_runs' = Append(pf_runs, run)
        /\ pf_file_count' = pf_file_count + 1

\* folder_processor.py:183-239
ProcessNextVideo ==
    /\ pf_pc = "loop"
    /\ pf_file_count < Len(pf_video_files) + Len(pf_image_files)
    /\ NextItem.type = "video"
    /\ \E run \in VideoRuns : Iterate("video", run)
    /\ UNCHANGED <<pf_summary, pf_folder_exists, pf_listing, pf_output_dir,
                   pf_default_output, pf_video_files, pf_image_files, pf_pc, mimeVars,
                   promptVars, analyzeVars, cliVars, commandVars, saveVars, batchVars>>

\* folder_processor.py:242-294
ProcessNextImage ==
    /\ pf_pc = "loop"
    /\ pf_file_count < Len(pf_video_files) + Len(pf_image_files)
    /\ NextItem.type = "image"
    /\ \E run \in ImageRuns : Iterate("image", run)
    /\ UNCHANGED <<pf_summary, pf_folder_exists, pf_listing, pf_output_dir,
                   pf_default_output, pf_video_files, pf_image_files, pf_pc, mimeVars,
                   promptVars, analyzeVars, cliVars, commandVars, saveVars, batchVars>>

\* folder_processor.py:296
ReturnResults ==
    /\ pf_pc = "loop"
    /\ pf_file_count = Len(pf_video_files) + Len(pf_image_files)
    /\ pf_pc' = "done"
    /\ UNCHANGED <<pf_summary, pf_folder_exists, pf_listing, pf_output_dir,
                   pf_default_output, pf_item_dirs, pf_video_files, pf_image_files,
                   pf_file_count, pf_results, pf_saved, pf_runs, mimeVars, promptVars,
                   analyzeVars, cliVars, commandVars, saveVars, batchVars>>

(***************************************************************************)
(* Specification: the discovery step of process_folder alone               *)
(***************************************************************************)
InitDiscover ==
    /\ pf_folder_exists \in BOOLEAN
    /\ pf_listing \in DiscoverListings
    /\ ~pf_folder_exists => pf_listing = << >>
    /\ pf_output_dir = None
    /\ pf_default_output = << >>
    /\ pf_item_dirs = [d \in ItemDirs |-> NoArtifact]
    /\ pf_video_files = << >>
    /\ pf_image_files = << >>
    /\ pf_file_count = 0
    /\ pf_results = << >>
    /\ pf_saved = NotSaved
    /\ pf_runs = << >>
    /\ pf_pc = "called"
    /\ pf_summary = NoSummary
    /\ MimeIdle /\ PromptIdle /\ AnalyzeIdle /\ CliIdle /\ CommandIdle /\ SaveIdle /\ BatchIdle

NextDiscover == FindAllMedia

SpecDiscover == InitDiscover /\ [][NextDiscover]_vars

\* folder_processor.py:308-340, called on the map process_folder returned
CallPrintSummary ==
    /\ pf_pc = "done"
    /\ pf_summary' = PrintSummary(pf_results)
    /\ pf_pc' = "summarised"
    /\ UNCHANGED <<pf_folder_exists, pf_listing, pf_output_dir, pf_default_output,
                   pf_item_dirs, pf_video_files, pf_image_files, pf_file_count, pf_results,
                   pf_saved, pf_runs, mimeVars, promptVars, analyzeVars, cliVars,
                   commandVars, saveVars, batchVars>>

NextFolder ==
    \/ FindAllMedia
    \/ ProcessNextVideo
    \/ ProcessNextImage
    \/ ReturnResults
    \/ CallPrintSummary

SpecFolder == InitFolder /\ [][NextFolder]_vars


(***************************************************************************)
(* Claims about _load_frame_prompt (SpecPrompt)                            *)
(***************************************************************************)
HasMarker(s) == \E i \in 1..Len(s) : MatchAt(s, Marker, i)

HasChar(s, c) == \E i \in 1..Len(s) : s[i] = c

\* The text of s between its marker occurrences, read left to right.
RECURSIVE TemplatePieces(_)
TemplatePieces(s) ==
    IF ~HasMarker(s) THEN <<s>>
    ELSE LET j == CHOOSE i \in 1..Len(s) :
                      MatchAt(s, Marker, i) /\ \A k \in 1..(i - 1) : ~MatchAt(s, Marker, k)
         IN  <<SubSeq(s, 1, j - 1)>> \o TemplatePieces(SubSeq(s, j + Len(Marker), Len(s)))

RECURSIVE JoinPieces(_, _)
JoinPieces(ps, sep) ==
    IF Len(ps) = 1 THEN ps[1] ELSE ps[1] \o sep \o JoinPieces(Tail(ps), sep)

\* What the claim says goes in the marker's place.
ClaimedInjection(custom) ==
    IF custom = NoneText \/ custom = <<>> THEN <<>> ELSE InjectionPrefix \o custom

\* C9 as stated: for every template and every custom question the returned
\* prompt contains zero occurrences of the marker '{prompt}'.
C9_NoMarkerLeft == pr_pc = "done" => ~HasMarker(pr_result)

\* C9, amended: the returned prompt is the template with every occurrence of
\* the marker, found left to right, replaced by 'I want to know: ' + question
\* (by nothing when no question is supplied) and no other part changed; it
\* contains zero occurrences of the marker whenever a supplied question holds
\* no '{', and, when none is supplied, whenever the template holds no '{'
\* outside its marker occurrences.
C9_MarkersReplaced ==
    pr_pc = "done" =>
        LET pieces == TemplatePieces(TemplateUsed(pr_files))
        IN  /\ pr_result = JoinPieces(pieces, ClaimedInjection(pr_custom))
            /\ (Truthy(pr_custom) /\ ~HasChar(pr_custom, "{")) => ~HasMarker(pr_result)
            /\ (~Truthy(pr_custom) /\ \A k \in 1..Len(pieces) : ~HasChar(pieces[k], "{"))
                   => ~HasMarker(pr_result)

\* A template with a marker and a question: the question is injected.
C9_Witness ==
    /\ pr_pc = "done"
    /\ pr_files[1] = <<"Q",":","{","p","r","o","m","p","t","}",".">>
    /\ pr_custom = <<"x","?">>
    /\ pr_result = <<"Q",":","I"," ","w","a","n","t"," ","t","o"," ","k","n","o","w",":",
                     " ","x","?",".">>

(***************************************************************************)
(* Claims about _get_image_mime_type (SpecMime)                            *)
(***************************************************************************)
SameIgnoringCase(a, b) ==
    Len(a) = Len(b) /\ \A i \in 1..Len(a) : LowerChar(a[i]) = LowerChar(b[i])

\* The table of the claim: extension, MIME type.
ClaimedMimeTable ==
    { << <<".","j","p","g">>, "image/jpeg" >>, << <<".","j","p","e","g">>, "image/jpeg" >>,
      << <<".","p","n","g">>, "image/png" >>, << <<".","g","i","f">>, "image/gif" >>,
      << <<".","w","e","b","p">>, "image/webp" >>, << <<".","b","m","p">>, "image/bmp" >> }

\* The stem ends inside a file name, so what follows it is that name's extension.
StemNamesFile(stem) == Len(stem) > 0 /\ stem[Len(stem)] # "/"

\* C10: the MIME type depends only on the file extension, compared without
\* regard to case: a table extension gives the table value, every other or
\* missing extension gives image/jpeg, and the call always returns.
C10_MimeByExtension ==
    mime_pc = "done" =>
        IF StemNamesFile(mime_stem)
           /\ \E row \in ClaimedMimeTable : SameIgnoringCase(mime_ext, row[1])
        THEN \E row \in ClaimedMimeTable :
                 SameIgnoringCase(mime_ext, row[1]) /\ mime_result = row[2]
        ELSE mime_result = "image/jpeg"

\* An upper-case table extension below a dotted directory gives the table value.
C10_Witness ==
    /\ mime_pc = "done"
    /\ mime_stem = <<"d",".","x","/","a">>
    /\ mime_ext = <<".","P","N","G">>
    /\ mime_result = "image/png"

(***************************************************************************)
(* Claims about analyze_image (SpecAnalyze)                                *)
(***************************************************************************)
\* The record the last call returned
ReturnedRecord == an_outcome.record

\* C1: analyze_image never raises: whatever the path, the client name, the
\* model, the custom prompt and whatever generate does, the call ends by
\* returning a record to its caller.
C1_NeverRaises ==
    /\ an_pc # "raised"
    /\ an_pc = "returned" => an_outcome.kind = "returned"

\* generate was invoked and raised; the caller got an error record with its message.
C1_Witness ==
    /\ an_pc = "returned"
    /\ an_generate_called
    /\ an_gen.kind = "raises"
    /\ an_gen.exc.cls = "ConnectionError"
    /\ "error" \in DOMAIN ReturnedRecord
    /\ ReturnedRecord.error = an_gen.exc.msg

\* C2: a returned record holds exactly one of 'analysis' and 'error', and
\* metadata.analysis_successful is true exactly when it holds 'analysis'.
C2_OneBranch ==
    an_pc = "returned" =>
        /\ ("analysis" \in DOMAIN ReturnedRecord) # ("error" \in DOMAIN ReturnedRecord)
        /\ ReturnedRecord.metadata.analysis_successful = ("analysis" \in DOMAIN ReturnedRecord)

\* A call that failed at the client: the error branch, flagged unsuccessful.
C2_Witness ==
    /\ an_pc = "returned"
    /\ an_generate_called
    /\ "error" \in DOMAIN ReturnedRecord
    /\ "analysis" \notin DOMAIN ReturnedRecord
    /\ ReturnedRecord.metadata.analysis_successful = FALSE

\* The client name the claim says the call uses: the requested one, or the
\* configured default ('ollama' when the configuration names none).
ClaimedClientName ==
    IF an_args.client_name \in {None, ""}
    THEN IF an_config.default = Absent THEN "ollama" ELSE an_config.default
    ELSE an_args.client_name

UnconfiguredMessage(name) == <<"Client '", name, "' not configured">>

\* C7 as stated: whenever the requested or default name is not a registered
\* client, the call yields an error record with the unconfigured-client
\* message and never invokes generate.
C7_UnconfiguredMessageAlways ==
    (an_pc = "returned" /\ ClaimedClientName \notin DOMAIN an_clients) =>
        /\ "error" \in DOMAIN ReturnedRecord
        /\ ReturnedRecord.error = UnconfiguredMessage(ClaimedClientName)
        /\ ~an_generate_called

\* C7, amended: an empty or omitted client name means the configured default
\* name; whenever that name is not a registered client the call yields an
\* error record and never invokes generate, and the record carries the
\* unconfigured-client message when the image file exists (the missing file is
\* reported first otherwise); a success record names the client so resolved.
C7_ClientResolution ==
    an_pc = "returned" =>
        /\ ClaimedClientName \notin DOMAIN an_clients =>
              /\ "error" \in DOMAIN ReturnedRecord
              /\ ~an_generate_called
              /\ an_args.image_path.exists =>
                     ReturnedRecord.error = UnconfiguredMessage(ClaimedClientName)
              /\ ~an_args.image_path.exists =>
                     ReturnedRecord.error[1] = "Image file not found: "
        /\ "analysis" \in DOMAIN ReturnedRecord =>
              ReturnedRecord.analysis.client = ClaimedClientName

\* The name is omitted, the default names a client that is not registered.
C7_Witness ==
    /\ an_pc = "returned"
    /\ an_args.client_name = None
    /\ an_config.default = "other"
    /\ an_args.image_path.exists
    /\ "error" \in DOMAIN ReturnedRecord
    /\ ReturnedRecord.error = UnconfiguredMessage("other")
    /\ ~an_generate_called

(***************************************************************************)
(* Claims about the image-analyzer command (SpecCli)                       *)
(***************************************************************************)
\* C8: the command exits with 1 on every validation failure and on every
\* analysis failure (analyze_image returned an error record, whatever its
\* message) and then saves no artifact; it exits with 0 only when the analysis
\* succeeded and the record was saved.
C8_ExitCodes ==
    cli_pc = "exited" =>
        /\ ( \/ ~cli_args.image_path.exists
             \/ \A e \in SupportedExtensions :
                    ~SameIgnoringCase(PathSuffix(PathChars(cli_args.image_path)), e)
             \/ "error" \in DOMAIN cli_record )
           => (cli_exit = 1 /\ cli_saved = NoRecord)
        /\ cli_exit = 0 => ("analysis" \in DOMAIN cli_record /\ cli_saved = cli_record)

(***************************************************************************)
(* Claims about process_folder                                             *)
(***************************************************************************)
HasError(entry) == "error" \in DOMAIN entry

\* The keys of the result map, in insertion order
ResultKeys == [i \in 1..Len(pf_results) |-> pf_results[i].key]

\* The discovered files: the videos in discovery order, then the images
Discovered == pf_video_files \o pf_image_files

\* Whether the i-th discovered file is a video or an image
KindAt(i) == IF i <= Len(pf_video_files) THEN "video" ELSE "image"

\* The single-item program analysed the file: it ran to exit code 0 within the
\* time allowed and wrote a JSON artifact that parses
AnalysedSuccessfully(run) ==
    /\ run.launched
    /\ run.duration <= SubprocessTimeout
    /\ run.returncode = 0
    /\ run.artifact \notin {NoArtifact, Unparsable}

\* C3: when process_folder has returned, the result map has one entry per
\* discovered file, and an entry carries 'error' exactly when the single-item
\* program failed on that file (nonzero exit, timeout, missing or unparsable
\* artifact); the files analysed successfully have entries without 'error'.
C3_BatchIsolation ==
    pf_pc = "done" =>
        /\ Len(pf_results) = Len(Discovered)
        /\ Len(pf_runs) = Len(Discovered)
        /\ \A i \in 1..Len(pf_results) :
              HasError(pf_results[i].entry) <=> ~AnalysedSuccessfully(pf_runs[i])

\* C4: with an output directory given, after each item (whether it succeeded
\* or failed) media_descriptions.json exists and holds exactly the entries
\* recorded so far.
C4_CheckpointAfterEachItem ==
    (pf_pc \in {"loop", "done"} /\ PyTruthy(pf_output_dir) /\ pf_file_count >= 1) =>
        /\ pf_saved.exists
        /\ pf_saved.content = pf_results

\* C5: at every point of the batch the keys of the result map, in insertion
\* order, are the first file_count discovered files, videos in discovery order
\* first and images in discovery order after them, whatever the files are
\* called; no video entry follows an image entry.
C5_VideosBeforeImages ==
    pf_pc \in {"loop", "done"} =>
        /\ Len(pf_results) = pf_file_count
        /\ \A i \in 1..Len(pf_results) :
              /\ pf_results[i].key = Discovered[i]
              /\ pf_results[i].entry.type = KindAt(i)
        /\ \A i, j \in 1..Len(pf_results) :
              (i < j /\ pf_results[i].entry.type = "image") => pf_results[j].entry.type = "image"
        /\ (pf_pc = "done" => Len(pf_results) = Len(Discovered))

\* A folder listed as a.jpg, b.mp4, a.mp4 has been processed: the map is keyed
\* b.mp4, a.mp4, a.jpg
C5_Witness ==
    /\ pf_pc = "done"
    /\ pf_listing = <<"a.jpg", "b.mp4", "a.mp4">>
    /\ ResultKeys = <<"b.mp4", "a.mp4", "a.jpg">>

\* The entry of an item whose run was stopped by the timeout
TimeoutEntry(kind) ==
    [error |-> IF kind = "video" THEN <<"Timeout processing ", "video">>
               ELSE <<"Timeout processing ", "image">>,
     type |-> kind]

\* C6: an item whose single-item run lasts longer than 300 seconds is recorded
\* as the error entry 'Timeout processing video' / 'Timeout processing image';
\* the batch goes on: while files remain the next iteration can run, and once
\* process_folder has returned every discovered file has an entry.
C6_TimeoutIsolated ==
    /\ \A i \in 1..Len(pf_runs) :
          (pf_runs[i].launched /\ pf_runs[i].duration > 300) =>
              /\ i <= Len(pf_results)
              /\ pf_results[i].entry = TimeoutEntry(KindAt(i))
    /\ (pf_pc = "loop" /\ pf_file_count < Len(Discovered)) =>
          ENABLED (ProcessNextVideo \/ ProcessNextImage)
    /\ pf_pc = "done" => Len(pf_results) = Len(Discovered)

\* The first item timed out, the second was analysed and recorded after it
C6_Witness ==
    /\ pf_pc = "done"
    /\ Len(pf_runs) >= 2
    /\ pf_runs[1].launched /\ pf_runs[1].duration > 300
    /\ pf_results[1].entry = TimeoutEntry(KindAt(1))
    /\ ~HasError(pf_results[2].entry)


(***************************************************************************)
(* Claims about discovery                                                  *)
(***************************************************************************)
\* The elements of a sequence
Range(s) == { s[i] : i \in 1..Len(s) }

\* The fixed extensions, in lowercase and in all-uppercase
ClaimedMediaExtensions ==
    {"mp4", "avi", "mov", "mkv", "wmv", "flv", "webm", "m4v",
     "jpg", "jpeg", "png", "gif", "webp", "bmp",
     "MP4", "AVI", "MOV", "MKV", "WMV", "FLV", "WEBM", "M4V",
     "JPG", "JPEG", "PNG", "GIF", "WEBP", "BMP"}

\* C11: once discovery has run, the discovered files are exactly the files of
\* the folder whose extension is one of the fixed video or image extensions in
\* lowercase or in all-uppercase; B.PNG is discovered like a.png.
C11_Discovery ==
    pf_pc \in {"loop", "done"} =>
        Range(pf_video_files) \cup Range(pf_image_files)
            = { name \in Range(pf_listing) : SplitExt(name).ext \in ClaimedMediaExtensions }

\* C12: a call of process_folder on a folder that does not exist ends by
\* signalling a failure to its caller, while a call on an existing folder
\* without media returns the empty map.
C12_MissingFolderFails ==
    pf_pc \in {"loop", "done", "raised"} =>
        /\ ~pf_folder_exists => pf_pc = "raised"
        /\ (pf_folder_exists /\ Len(pf_video_files) + Len(pf_image_files) = 0) =>
              (pf_pc = "done" /\ pf_results = << >>)

(***************************************************************************)
(* Specification: one call of process_image or process_video               *)
(***************************************************************************)
InitCommand ==
    /\ cm_model \in CommandModels
    /\ cm_prompt \in CommandPrompts
    /\ cm_whisper \in CommandWhispers
    /\ cm_env \in CommandEnvs
    /\ cm_output_dir \in CommandOutputDirs
    /\ cm_cmd = << >>
    /\ cm_printed = NoText
    /\ cm_result = NoRecord
    /\ cm_pc = "ready"
    /\ MimeIdle /\ PromptIdle /\ AnalyzeIdle /\ CliIdle /\ FolderIdle /\ SaveIdle /\ BatchIdle

\* folder_processor.py:29-75
CallProcessImage ==
    /\ cm_pc = "ready"
    /\ \E run \in CommandRuns :
          LET output_dir == EffectiveOutputDir(cm_output_dir)
              cmd == ImageCmd(ItemPath, cm_prompt, SelfModel(cm_model), cm_env, output_dir)
              call == RunCommand(KindImage, cmd, cm_env, run, output_dir)
          IN  /\ cm_cmd' = call.cmd
              /\ cm_printed' = call.printed
              /\ cm_result' = call.result
    /\ cm_pc' = "done"
    /\ UNCHANGED <<cm_model, cm_prompt, cm_whisper, cm_env, cm_output_dir, mimeVars,
                   promptVars, analyzeVars, cliVars, folderVars, saveVars, batchVars>>

\* folder_processor.py:77-126
CallProcessVideo ==
    /\ cm_pc = "ready"
    /\ \E run \in CommandRuns :
          LET output_dir == EffectiveOutputDir(cm_output_dir)
              cmd == VideoCmd(ItemPath, cm_prompt, SelfModel(cm_model), cm_whisper, cm_env,
                              output_dir)
              call == RunCommand(KindVideo, cmd, cm_env, run, output_dir)
          IN  /\ cm_cmd' = call.cmd
              /\ cm_printed' = call.printed
              /\ cm_result' = call.result
    /\ cm_pc' = "done"
    /\ UNCHANGED <<cm_model, cm_prompt, cm_whisper, cm_env, cm_output_dir, mimeVars,
                   promptVars, analyzeVars, cliVars, folderVars, saveVars, batchVars>>

NextCommand == CallProcessImage \/ CallProcessVideo

SpecCommand == InitCommand /\ [][NextCommand]_vars

(***************************************************************************)
(* Claims about the command line                                           *)
(***************************************************************************)
\* The key from the environment is an argument of the command
KeyOnCommandLine ==
    /\ cm_env # NotInEnv
    /\ \E i \in 1..(Len(cm_cmd) - 1) : cm_cmd[i] = FlagApiKey /\ cm_cmd[i + 1] = cm_env

\* C13: when the API key of the environment has been put on the command line,
\* the printed command line does not contain the key value anywhere, shows the
\* mask token in its place, and an error entry returned by the call does not
\* contain the key value either.
C13_KeyMasked ==
    (cm_pc = "done" /\ KeyOnCommandLine) =>
        /\ cm_printed # NoText =>
              (~Contains(cm_printed, cm_env) /\ Contains(cm_printed, Mask))
        /\ "error" \in DOMAIN cm_result => ~Contains(cm_result.error, cm_env)

\* A command carrying the key, with a prompt that quotes the key as well, has
\* been printed and could not be launched
C13_Witness ==
    /\ cm_pc = "done"
    /\ KeyOnCommandLine
    /\ cm_prompt = PromptWithKey /\ cm_env = KeyA
    /\ cm_printed # NoText
    /\ Contains(cm_printed, Mask)
    /\ "error" \in DOMAIN cm_result

(***************************************************************************)
(* Specification: one call of save_analysis                                *)
(***************************************************************************)
InitSave ==
    /\ sv_record \in SaveRecords
    /\ sv_output_dir \in SaveOutputDirs
    /\ sv_at_path \in {"absent", "dir", "file"}
    /\ sv_file \in {NoRecord, OldRecord}
    /\ sv_at_path # "dir" => sv_file = NoRecord
    /\ sv_output_dir = "" => sv_at_path = "absent"
    /\ sv_fault = "none"
    /\ sv_created = FALSE
    /\ sv_outcome = NoRecord
    /\ sv_pc = "ready"
    /\ MimeIdle /\ PromptIdle /\ AnalyzeIdle /\ CliIdle /\ FolderIdle /\ CommandIdle /\ BatchIdle

\* core.py:235-260
CallSaveAnalysis ==
    /\ sv_pc = "ready"
    /\ \E fault \in SaveFaults :
          LET call == SaveAnalysis(sv_record, sv_output_dir, sv_at_path, sv_file, fault)
          IN  /\ sv_at_path' = call.at_path
              /\ sv_created' = (sv_at_path = "absent" /\ call.at_path = "dir")
              /\ sv_fault' = fault
              /\ sv_file' = call.file
              /\ sv_outcome' = call.outcome
    /\ sv_pc' = "done"
    /\ UNCHANGED <<sv_record, sv_output_dir, mimeVars, promptVars, analyzeVars, cliVars,
                   folderVars, commandVars, batchVars>>

NextSave == CallSaveAnalysis

SpecSave == InitSave /\ [][NextSave]_vars

(***************************************************************************)
(* Claims about save_analysis                                              *)
(***************************************************************************)
\* C14: a call of save_analysis either returns, and then the output directory
\* exists, image_analysis.json in it holds the record, and the value returned
\* is the path of that file; or it raises to its caller and returns no path.
\* It raises whenever the directory is not there afterwards or the file does
\* not hold the record.
C14_SaveAnalysis ==
    sv_pc = "done" =>
        /\ sv_outcome.kind \in {"returned", "raised"}
        /\ sv_outcome.kind = "returned" =>
              /\ sv_at_path = "dir"
              /\ sv_file = sv_record
              /\ sv_outcome.path = <<sv_output_dir, "image_analysis.json">>
        /\ (sv_at_path # "dir" \/ sv_file # sv_record) =>
              (sv_outcome.kind = "raised" /\ "path" \notin DOMAIN sv_outcome)

\* The directory was absent before a call that has created it, written the
\* record and returned the path
C14_Witness ==
    /\ sv_pc = "done"
    /\ sv_created
    /\ sv_outcome.kind = "returned"
    /\ sv_output_dir = "out/image_a"
    /\ sv_at_path = "dir"
    /\ sv_file = sv_record

(***************************************************************************)
(* Claims about the entries process_folder records                         *)
(***************************************************************************)
\* The entry the i-th item gets from the same run when the batch is given the
\* output directory "out"
EntryWithOutputDir(i) ==
    ProcessOne(KindAt(i), Discovered[i], pf_runs[i], "out", pf_default_output,
               [d \in ItemDirs |-> NoArtifact], << >>, NotSaved).results[1].entry

\* C15: in a batch without an output directory, an item whose single-item run
\* succeeded and wrote a parsable artifact is recorded exactly as it is in a
\* batch with an output directory: as the same success entry whenever that
\* one is a success entry.
C15_NoOutputDirSameEntries ==
    (pf_pc \in {"loop", "done"} /\ pf_output_dir = None) =>
        \A i \in 1..Len(pf_runs) :
            (AnalysedSuccessfully(pf_runs[i]) /\ ~HasError(EntryWithOutputDir(i))) =>
                pf_results[i].entry = EntryWithOutputDir(i)

C17_OverrideEndsWithCall ==
    (/\ an_pc = "returned"
     /\ ~PyTruthy(an_args.model)
     /\ "analysis" \in DOMAIN an_outcome.record) =>
        /\ an_outcome.record.analysis.model
              = an_initial_clients[an_outcome.record.analysis.client]
        /\ an_clients[an_outcome.record.analysis.client]
              = an_initial_clients[an_outcome.record.analysis.client]

\* The artifact the i-th run wrote
ArtifactAt(i) == pf_runs[i].artifact

\* The value of the first non-empty description key, in the priority order of
\* the item's kind; JNull when there is none
ClaimedDescription(kind, artifact) ==
    IF kind = "video"
    THEN Or(Get(artifact, "final_description"),
            Or(Get(artifact, "video_description"), Get(artifact, "description")))
    ELSE Or(IF Get(artifact, "analysis").t = "obj"
            THEN Get(Get(artifact, "analysis"), "description") ELSE JNull,
            Get(artifact, "description"))

\* The artifact of a video carries a transcript with its text
HasTranscript(artifact) ==
    Get(artifact, "transcript").t = "obj" /\ "text" \in DOMAIN Get(artifact, "transcript").f

\* C18: with an output directory given, an item whose run succeeded and whose
\* artifact has a non-empty description key (and, for a video, a transcript)
\* is recorded as a success entry; when the first non-empty key holds text,
\* as save_analysis writes it, the entry's description is that text.
C18_DescriptionExtracted ==
    (pf_pc \in {"loop", "done"} /\ PyTruthy(pf_output_dir)) =>
        \A i \in 1..Len(pf_runs) :
            (/\ AnalysedSuccessfully(pf_runs[i])
             /\ JTruthy(ClaimedDescription(KindAt(i), ArtifactAt(i)))
             /\ KindAt(i) = "video" => HasTranscript(ArtifactAt(i))) =>
                /\ ~HasError(pf_results[i].entry)
                /\ ClaimedDescription(KindAt(i), ArtifactAt(i)).t = "str" =>
                      pf_results[i].entry.description
                          = ClaimedDescription(KindAt(i), ArtifactAt(i))

\* C19: with an output directory given, a video whose run succeeded and whose
\* artifact has a description object but no transcript is recorded as a
\* success entry.
C19_TranscriptOptional ==
    (pf_pc \in {"loop", "done"} /\ PyTruthy(pf_output_dir)) =>
        \A i \in 1..Len(pf_runs) :
            (/\ KindAt(i) = "video"
             /\ AnalysedSuccessfully(pf_runs[i])
             /\ ClaimedDescription("video", ArtifactAt(i)).t = "obj"
             /\ JTruthy(ClaimedDescription("video", ArtifactAt(i)))
             /\ ~HasTranscript(ArtifactAt(i))) =>
                ~HasError(pf_results[i].entry)

(***************************************************************************)
(* Claims about a missing artifact                                         *)
(***************************************************************************)
\* The i-th run exited with 0 in time and left no artifact, and the item's
\* output directory holds none
ArtifactMissing(i) ==
    /\ pf_runs[i].launched
    /\ pf_runs[i].duration <= SubprocessTimeout
    /\ pf_runs[i].returncode = 0
    /\ pf_runs[i].artifact = NoArtifact
    /\ PyTruthy(pf_output_dir) =>
          pf_item_dirs[MediaOutputDir(pf_output_dir, KindAt(i), Discovered[i])] = NoArtifact

\* The entry the i-th item gets when the given artifact is read as its own
EntryUsing(i, artifact) ==
    ProcessOne(KindAt(i), Discovered[i], [pf_runs[i] EXCEPT !.artifact = artifact],
               pf_output_dir, << >>, [d \in ItemDirs |-> NoArtifact], << >>,
               NotSaved).results[1].entry

NoJsonEntry(kind) == [error |-> <<"No JSON output found">>, type |-> kind]

\* Some file of ./output is called image_analysis.json
HasDefaultImageJson ==
    \E j \in 1..Len(pf_default_output) : pf_default_output[j].name = "image_analysis.json"

DefaultImageJson ==
    pf_default_output[CHOOSE j \in 1..Len(pf_default_output) :
                          pf_default_output[j].name = "image_analysis.json"].content

\* C20 as stated: an item whose artifact is missing gets exactly the entry
\* 'No JSON output found' when ./output holds no JSON file, and otherwise is
\* recorded from the first JSON file of ./output, a video and an image alike.
C20_FallbackAlike ==
    pf_pc \in {"loop", "done"} =>
        \A i \in 1..Len(pf_runs) :
            ArtifactMissing(i) =>
                pf_results[i].entry
                    = IF pf_default_output = << >> THEN NoJsonEntry(KindAt(i))
                      ELSE EntryUsing(i, pf_default_output[1].content)

\* C20, amended: an item whose artifact is missing is recorded from a file of
\* ./output when there is one to fall back to: for a video the first JSON
\* file of ./output, for an image only ./output/image_analysis.json. When
\* there is none the entry is exactly 'No JSON output found' with the type,
\* and the batch goes on to the next file.
C20_Fallback ==
    pf_pc \in {"loop", "done"} =>
        /\ \A i \in 1..Len(pf_runs) :
              ArtifactMissing(i) =>
                  pf_results[i].entry
                      = IF KindAt(i) = "video"
                        THEN IF pf_default_output = << >> THEN NoJsonEntry("video")
                             ELSE EntryUsing(i, pf_default_output[1].content)
                        ELSE IF HasDefaultImageJson THEN EntryUsing(i, DefaultImageJson)
                             ELSE NoJsonEntry("image")
        /\ Len(pf_results) = pf_file_count
        /\ pf_pc = "done" => Len(pf_results) = Len(Discovered)

\* A video and then an image left no artifact while ./output held
\* analysis.json only: the video was recorded from it, the image was not
C20_Witness ==
    /\ pf_pc = "done"
    /\ Len(pf_runs) = 2
    /\ KindAt(1) = "video" /\ KindAt(2) = "image"
    /\ ArtifactMissing(1) /\ ArtifactMissing(2)
    /\ PyTruthy(pf_output_dir)
    /\ pf_default_output # << >> /\ ~HasDefaultImageJson
    /\ ~HasError(pf_results[1].entry)
    /\ pf_results[2].entry = NoJsonEntry("image")

(***************************************************************************)
(* Claims about print_summary (SpecFolder)                                 *)
(***************************************************************************)
\* The entries of results of one type that carry no "error" key
SuccessesOfType(type) ==
    {i \in 1..Len(pf_results) :
        ~HasError(pf_results[i].entry) /\ pf_results[i].entry.type = type}

\* C21: print_summary partitions the entries of a result map produced by
\* process_folder: the failure counter is the number of entries with an
\* "error" key, the video and image counters are the numbers of error-free
\* entries of each type, and the three counters sum to the number of entries.
C21_SummaryPartitions ==
    pf_summary.called =>
        /\ pf_summary.failed
             = Cardinality({i \in 1..Len(pf_results) : HasError(pf_results[i].entry)})
        /\ pf_summary.successful_videos = Cardinality(SuccessesOfType("video"))
        /\ pf_summary.successful_images = Cardinality(SuccessesOfType("image"))
        /\ pf_summary.successful_videos + pf_summary.successful_images
             + pf_summary.failed = Len(pf_results)
        /\ pf_summary.total = Len(pf_results)

\* A summary of a map holding a failed entry, a described video and a
\* described image
C21_Witness ==
    /\ pf_summary.called
    /\ pf_summary.failed >= 1
    /\ pf_summary.successful_videos >= 1
    /\ pf_summary.successful_images >= 1

(***************************************************************************)
(* Claims about the shape of the two commands (SpecCommand)                *)
(***************************************************************************)
\* The flags that carry the prompt, the model and the client selection
SelectionFlags == {FlagPrompt, FlagModel, FlagClient, FlagApiUrl, FlagApiKey}

\* The flag/value pairs of a command line that carry them; the pairs follow
\* the program name and the item path
SelectionArgs(cmd) ==
    {<<cmd[i], cmd[i + 1]>> : i \in {j \in 3..(Len(cmd) - 1) :
                                        j % 2 = 1 /\ cmd[j] \in SelectionFlags}}

\* Whether a command line selects the openai_api client
SelectsOpenAi(cmd) == <<FlagClient, OpenAiClient>> \in SelectionArgs(cmd)

\* The command the method for the other kind of item builds from the same
\* configuration, item path and output directory
OtherKindCmd ==
    IF cm_cmd[1] = ImageProgram
    THEN VideoCmd(ItemPath, cm_prompt, SelfModel(cm_model), cm_whisper, cm_env,
                  EffectiveOutputDir(cm_output_dir))
    ELSE ImageCmd(ItemPath, cm_prompt, SelfModel(cm_model), cm_env,
                  EffectiveOutputDir(cm_output_dir))

\* C22: for the same configured model name and prompt, process_video and
\* process_image select the same client and pass the same prompt, model and
\* client flags to the subprocess.
C22_SameShape ==
    cm_pc = "done" =>
        /\ SelectsOpenAi(cm_cmd) = SelectsOpenAi(OtherKindCmd)
        /\ SelectionArgs(cm_cmd) = SelectionArgs(OtherKindCmd)

(***************************************************************************)
(* Claims about the template _load_frame_prompt selects (SpecPrompt)       *)
(***************************************************************************)
\* The template the claim names: the content of the first candidate file
\* that exists, the built-in fallback when none of the three exists
ClaimedTemplate(files) ==
    IF files[1] # NoFile THEN files[1]
    ELSE IF files[2] # NoFile THEN files[2]
    ELSE IF files[3] # NoFile THEN files[3]
    ELSE FallbackPrompt

\* C23: _load_frame_prompt builds its result from the content of the first
\* candidate template file that exists, in the order prompts/image.txt,
\* ../prompts/image.txt, ../../prompts/image.txt, and from the built-in
\* fallback template only when none of the candidate files exists.
C23_FirstExistingTemplate ==
    pr_pc = "done" =>
        pr_result = JoinPieces(TemplatePieces(ClaimedTemplate(pr_files)),
                               ClaimedInjection(pr_custom))

(***************************************************************************)
(* Claims about the per-item output directories (SpecFolder)               *)
(***************************************************************************)
\* The per-item output directory of the i-th discovered file
ItemDirAt(i) == MediaOutputDir(pf_output_dir, KindAt(i), Discovered[i])

\* C24: with a batch output directory given, two distinct discovered files
\* never share a per-item output directory, and no item is recorded from the
\* artifact another item of the run left there (./output being empty, the
\* only artifact an item can be recorded from is then its own).
C24_ItemDirsDistinct ==
    (pf_pc \in {"loop", "done"} /\ PyTruthy(pf_output_dir)) =>
        /\ \A i, j \in 1..Len(Discovered) : i # j => ItemDirAt(i) # ItemDirAt(j)
        /\ pf_default_output = << >> =>
              \A i \in 1..Len(pf_runs) :
                  ~HasError(pf_results[i].entry) => ArtifactAt(i) # NoArtifact

\* The success entry process_folder makes of an artifact for the i-th file
EntryFrom(i, artifact) ==
    IF KindAt(i) = "video"
    THEN VideoEntry(artifact, pf_runs[i].duration, <<"/cwd", Discovered[i]>>)
    ELSE ImageEntry(artifact, pf_runs[i].duration, <<"/cwd", Discovered[i]>>)

\* C25: the description recorded for a file is read from the JSON artifact
\* that file's own run wrote during this call: every entry without "error"
\* belongs to a run that wrote a parsable artifact, and carries the
\* description process_folder extracts from that artifact.
C25_OwnArtifact ==
    (pf_pc \in {"loop", "done"} /\ PyTruthy(pf_output_dir)) =>
        \A i \in 1..Len(pf_runs) :
            ~HasError(pf_results[i].entry) =>
                /\ AnalysedSuccessfully(pf_runs[i])
                /\ ~EntryFrom(i, ArtifactAt(i)).raised
                /\ pf_results[i].entry.description
                     = EntryFrom(i, ArtifactAt(i)).entry.description

(***************************************************************************)
(* Specification: one call of batch_analyze_images                         *)
(***************************************************************************)
InitBatch ==
    /\ bt_dir \in BatchDirs
    /\ bt_dir_exists \in BOOLEAN
    /\ bt_listing \in BatchListings
    /\ ~bt_dir_exists => bt_listing = << >>
    /\ bt_config \in Configs
    /\ bt_client \in {None, "ollama"}
    /\ bt_found = << >>
    /\ bt_passed = << >>
    /\ bt_results = << >>
    /\ bt_outcome = "none"
    /\ bt_pc = "ready"
    /\ MimeIdle /\ PromptIdle /\ AnalyzeIdle /\ CliIdle /\ FolderIdle /\ CommandIdle
    /\ SaveIdle

\* cli.py:255-312; gens is what client.generate does for each image in turn
CallBatchAnalyzeImages ==
    /\ bt_pc = "ready"
    /\ IF ~bt_dir_exists
       THEN /\ bt_outcome' = "ValueError"
            /\ UNCHANGED <<bt_found, bt_passed, bt_results>>
       ELSE \E found \in FoundOrders(bt_dir, bt_listing) :
               \E gens \in [1..Len(found) -> GenOutcomes] :
                  /\ bt_found' = found
                  /\ bt_passed' = [i \in 1..Len(found) |-> JoinPath(bt_dir, found[i])]
                  /\ bt_results' = BatchLoop(bt_dir, bt_dir_exists, bt_listing, bt_config,
                                             bt_client, found, gens, Len(found))
                  /\ bt_outcome' = "returned"
    /\ bt_pc' = "done"
    /\ UNCHANGED <<bt_dir, bt_dir_exists, bt_listing, bt_config, bt_client, mimeVars,
                   promptVars, analyzeVars, cliVars, folderVars, commandVars, saveVars>>

NextBatch == CallBatchAnalyzeImages

SpecBatch == InitBatch /\ [][NextBatch]_vars

(***************************************************************************)
(* Claims about batch_analyze_images (SpecBatch)                           *)
(***************************************************************************)
\* The names in the directory that carry an image extension, all lower or all
\* upper case
ImageNamesListed ==
    { bt_listing[i] : i \in { j \in 1..Len(bt_listing) :
        \E ext \in BatchImageExtensions :
            EndsWith(bt_listing[j], ext) \/ EndsWith(bt_listing[j], Upper(ext)) } }

\* The entry recorded under a name reports the file as not found
ReportedNotFound(name) ==
    \E i \in 1..Len(bt_results) :
        /\ bt_results[i].key = name
        /\ HasError(bt_results[i].entry)
        /\ bt_results[i].entry.error[1] = "Image file not found: "

\* C26: batch_analyze_images analyzes every image found at its real location:
\* for a relative or absolute directory that exists, each image in it is
\* passed to analyze_image once, by a path that denotes that very file, and is
\* never reported as not found; a directory that does not exist raises
\* ValueError before any analysis.
C26_AnalyzedInPlace ==
    bt_pc = "done" =>
        /\ ~bt_dir_exists => bt_outcome = "ValueError" /\ bt_passed = << >>
        /\ bt_dir_exists =>
              /\ bt_outcome = "returned"
              /\ { NameOf(bt_found[i]) : i \in 1..Len(bt_found) } = ImageNamesListed
              /\ Len(bt_passed) = Cardinality(ImageNamesListed)
              /\ \A i \in 1..Len(bt_passed) :
                    /\ Resolve(bt_passed[i]) = Resolve(bt_dir) \o <<NameOf(bt_found[i])>>
                    /\ ~ReportedNotFound(NameOf(bt_found[i]))

====
